---------------------------- MODULE Spec2Model ----------------------------
(***************************************************************************)
(* A model of the cirkit circuit compiler core:                            *)
(*   - the compiled-parameter cache of the torch backend and the rules     *)
(*     compile_tensor_parameter / compile_constant_parameter               *)
(*     (cirkit/backend/torch/rules/parameters.py);                         *)
(*   - the symbolic circuit, its construction from a region graph and its  *)
(*     structural properties (cirkit/symbolic/symb_circuit.py);            *)
(*   - the symbolic operators integrate / multiply                         *)
(*     (cirkit/symbolic/functional.py, cirkit/symbolic/operators.py).      *)
(***************************************************************************)
EXTENDS Integers, Sequences, FiniteSets, TLC

(***************************************************************************)
(* Bounds of the model.                                                    *)
(***************************************************************************)
NumTensorParams == 2
NumConstParams == 1
MaxCalls == 4
MaxFoldIdx == 1
NumCompilations == 2
MaxParCalls == 3
NumVars == 2
MaxNodes == 4
MaxArity == 2
MaxUnits == 2
MaxCircuits == 3
MaxCompileCalls == 3
MaxChannels == 2
MaxCategories == 2
MaxLayersMade == 2
MaxMulCalls == 2
MaxTopoLayers == 3
MaxTopoEdges == 3
MaxRank == 2
MaxDim == 2
MaxOperands == 2

VARIABLES
    compiled_parameters,  \* compiler.state: symbolic parameter -> <<compiled, fold_idx>>
    tensors,              \* every TorchTensorParameter constructed, in order of construction
    returned,             \* what each finished compile_*_parameter call was given and returned
    par_pc,               \* position of each concurrent compilation inside its rule call
    par_p,                \* the symbolic parameter each concurrent compilation is compiling
    par_local,            \* the rule call's locals (compiled_p)
    rg_nodes,             \* the region graph handed to from_region_graph: its nodes, in order
    sym_pc,               \* "rg": region graph under construction, then "built", ...
    sc,                   \* the symbolic circuit from_region_graph returned
    int_sc,               \* the circuit the last integrate call returned (NoCircuit: it raised)
    int_call,             \* the last integrate call: arguments, error, trace of the rewrite
    pipe,                 \* the circuits of the pipeline: p, q, then the derived ones
    pipe_compiles,        \* the circuits compiler.compile was called on, in call order
    pipe_call,            \* the last pipeline call: operator, operands, error, result
    diff_call,            \* the last differentiate call: operand, error, result
    topo_call,            \* the last layers_topological_ordering call: error, ordering
    rg_call,              \* the arguments of the from_region_graph call that built sc
    made,                 \* the layer constructor calls made: class, arguments, error, layer
    mul_calls,            \* the multiplication rule calls made: operands, error, layer
    param_call            \* the last parameter operator constructed: operands, axis, shape

compiler_vars == <<compiled_parameters, tensors, returned>>
par_vars == <<par_pc, par_p, par_local>>
sym_vars == <<rg_nodes, sym_pc, sc, int_sc, int_call>>
pipe_vars == <<pipe, pipe_compiles, pipe_call>>
graph_vars == <<diff_call, topo_call, rg_call>>
layer_vars == <<made, mul_calls>>
param_vars == <<param_call>>

(***************************************************************************)
(* Symbolic leaf parameters.  Identity is the type and the number.         *)
(***************************************************************************)
TensorParameter(i) == [type |-> "TensorParameter", id |-> i]
ConstantParameter(i) == [type |-> "ConstantParameter", id |-> i]
TensorParameters == {TensorParameter(i) : i \in 1 .. NumTensorParams}
ConstantParameters == {ConstantParameter(i) : i \in 1 .. NumConstParams}
SymbolicParameters == TensorParameters \cup ConstantParameters
FoldIndices == 0 .. MaxFoldIdx
Compilations == 1 .. NumCompilations

(***************************************************************************)
(* The compiled-parameter cache of the compiler state: an identity-keyed   *)
(* dictionary.                                                             *)
(***************************************************************************)
has_compiled_parameter(st, p) == p \in DOMAIN st

retrieve_compiled_parameter(st, p) == st[p]

register_compiled_parameter(st, p, compiled_p, fold_idx) ==
    [q \in (DOMAIN st) \cup {p} |->
        IF q = p THEN [param |-> compiled_p, fold_idx |-> fold_idx] ELSE st[q]]

(***************************************************************************)
(* Compiled parameter nodes.  A TorchTensorParameter is identified by its  *)
(* position in tensors; a TorchPointerParameter holds the tensor it points *)
(* to and a fold index.                                                    *)
(***************************************************************************)
TorchTensorParameter(p, requires_grad) == [sym |-> p, requires_grad |-> requires_grad]

TorchPointerParameter(compiled_p, fold_idx) ==
    [kind |-> "pointer", ref |-> compiled_p, fold_idx |-> fold_idx]

TensorResult(compiled_p) == [kind |-> "tensor", ref |-> compiled_p, fold_idx |-> 0]

(***************************************************************************)
(* One whole call of a leaf-parameter compilation rule on the compiler     *)
(* <<state, tensors>>: the cache after it, the tensors after it and the    *)
(* value returned.  fold is the fold index the state files a new           *)
(* registration under.                                                     *)
(***************************************************************************)
\* A rule that never consults the cache: it constructs and registers on every call.
compile_tensor_parameter_unchecked(st, ts, p, fold) ==
    LET compiled_p == Len(ts) + 1
    IN  [state |-> register_compiled_parameter(st, p, compiled_p, fold),
         tensors |-> Append(ts, TorchTensorParameter(p, TRUE)),
         result |-> TensorResult(compiled_p)]

compile_tensor_parameter(st, ts, p, fold) ==
    IF has_compiled_parameter(st, p)
    THEN LET e == retrieve_compiled_parameter(st, p)
         IN  [state |-> st, tensors |-> ts,
              result |-> TorchPointerParameter(e.param, e.fold_idx)]
    ELSE LET compiled_p == Len(ts) + 1
         IN  [state |-> register_compiled_parameter(st, p, compiled_p, fold),
              tensors |-> Append(ts, TorchTensorParameter(p, TRUE)),
              result |-> TensorResult(compiled_p)]

compile_constant_parameter_unchecked(st, ts, p, fold) ==
    LET compiled_p == Len(ts) + 1
    IN  [state |-> register_compiled_parameter(st, p, compiled_p, fold),
         tensors |-> Append(ts, TorchTensorParameter(p, FALSE)),
         result |-> TensorResult(compiled_p)]

compile_constant_parameter(st, ts, p, fold) ==
    IF has_compiled_parameter(st, p)
    THEN LET e == retrieve_compiled_parameter(st, p)
         IN  [state |-> st, tensors |-> ts,
              result |-> TorchPointerParameter(e.param, e.fold_idx)]
    ELSE LET compiled_p == Len(ts) + 1
         IN  [state |-> register_compiled_parameter(st, p, compiled_p, fold),
              tensors |-> Append(ts, TorchTensorParameter(p, FALSE)),
              result |-> TensorResult(compiled_p)]

\* DEFAULT_PARAMETER_COMPILATION_RULES: the rule is chosen by the parameter's type.
DEFAULT_PARAMETER_COMPILATION_RULES(p, st, ts, fold) ==
    IF p.type = "TensorParameter"
    THEN compile_tensor_parameter(st, ts, p, fold)
    ELSE compile_constant_parameter(st, ts, p, fold)

(***************************************************************************)
(* Scopes, dictionaries and region graphs.                                 *)
(***************************************************************************)
Variables == 0 .. (NumVars - 1)
Scopes == SUBSET Variables
UnitCounts == 1 .. MaxUnits

Range(s) == {s[i] : i \in DOMAIN s}

\* d[k] = v on a dict
DictSet(d, k, v) == [x \in (DOMAIN d) \cup {k} |-> IF x = k THEN v ELSE d[x]]

\* d[k] on a defaultdict(list) whose values are lists: the value read ...
DefaultGet(d, k) == IF k \in DOMAIN d THEN d[k] ELSE <<>>

\* ... and the dict after the read (a missing key is inserted with an empty list)
DefaultTouch(d, k) == IF k \in DOMAIN d THEN d ELSE DictSet(d, k, <<>>)

\* A value of an out_layers table: a list of layers, or (from_region_graph, lines
\* 97 and 109) a bare layer object stored in place of a list.
ListValue(items) == [list |-> TRUE, items |-> items]
LayerValue(l) == [list |-> FALSE, items |-> <<l>>]
OutGet(d, k) == IF k \in DOMAIN d THEN d[k] ELSE ListValue(<<>>)
\* Python truth of such a value: a list is true when non-empty, a layer object always
Truthy(v) == (~v.list) \/ v.items # <<>>

\* Region graph nodes: a region has partitions as inputs (none: a leaf region), a
\* partition has regions as inputs.  Inputs are positions in the node sequence.
RegionNode(scope, inputs) == [kind |-> "region", scope |-> scope, inputs |-> inputs]
PartitionNode(scope, inputs) == [kind |-> "partition", scope |-> scope, inputs |-> inputs]

UnionOf(sets) == UNION sets

\* region_graph.scope
RegionGraphScope(nodes) == UnionOf({nodes[i].scope : i \in DOMAIN nodes})

\* region_graph.output_nodes: the regions that feed no partition
OutputNodes(nodes) ==
    {i \in DOMAIN nodes :
        /\ nodes[i].kind = "region"
        /\ \A j \in DOMAIN nodes : i \notin Range(nodes[j].inputs)}

(***************************************************************************)
(* Symbolic layers and circuits.  A layer's identity is its id.            *)
(***************************************************************************)
NoLayerOperation == [operator |-> "NONE", operands |-> <<>>, rule |-> "NONE"]

SymbLayer(id, cls, scope, num_units, arity, operation) ==
    [id |-> id, cls |-> cls, scope |-> scope, num_units |-> num_units,
     arity |-> arity, operation |-> operation]

InputClasses == {"CategoricalLayer", "GaussianLayer"}
IsInputLayer(l) == l.cls \in InputClasses \cup {"ConstantLayer"}
IsSumLayer(l) == l.cls \in {"SymbSumLayer", "SymbMixingLayer"}
IsProdLayer(l) == l.cls = "SymbProdLayer"

NoCircuitOperation == [operator |-> "NONE", operands |-> <<>>, scope |-> {}]

SymbCircuit(id, scope, layers, in_layers, out_layers, operation) ==
    [id |-> id, scope |-> scope, layers |-> layers, in_layers |-> in_layers,
     out_layers |-> out_layers, operation |-> operation]

NoCircuit == SymbCircuit(0, {}, <<>>, <<>>, <<>>, NoCircuitOperation)

LayerById(c, id) == CHOOSE l \in Range(c.layers) : l.id = id

\* The factories from_region_graph is handed: what they return for its arguments.
input_factory(id, cls, scope, num_input_units, num_channels) ==
    SymbLayer(id, cls, scope, num_input_units, num_channels, NoLayerOperation)
sum_factory(id, scope, num_units) ==
    SymbLayer(id, "SymbSumLayer", scope, num_units, 1, NoLayerOperation)
prod_factory(id, scope, num_units) ==
    SymbLayer(id, "SymbProdLayer", scope, num_units, 2, NoLayerOperation)
\* a plain sum layer in place of a mixing layer
PlainSumLayer(id, scope, num_units) ==
    SymbLayer(id, "SymbSumLayer", scope, num_units, 1, NoLayerOperation)
SymbMixingLayer(id, scope, num_units) ==
    SymbLayer(id, "SymbMixingLayer", scope, num_units, 2, NoLayerOperation)

(***************************************************************************)
(* SymbCircuit.from_region_graph: the loop over the nodes, one iteration   *)
(* per call.  a holds the locals layers, in_layers, out_layers,            *)
(* rgn_to_layers and num_sum_units (which the loop reassigns).             *)
(***************************************************************************)
RECURSIVE FromRegionGraphLoop(_, _, _, _)
FromRegionGraphLoop(nodes, args, k, a) ==
    IF k > Len(nodes) THEN a
    ELSE
    LET rgn == nodes[k]
        n == args.first_id + Len(a.layers)
        is_output == k \in OutputNodes(nodes)
        ins == [i \in 1 .. Len(rgn.inputs) |-> a.rgn_to_layers[rgn.inputs[i]]]
        \* for in_sl in inputs: out_layers[in_sl] = sl
        outs_assigned(sl_id) ==
            [x \in (DOMAIN a.out_layers) \cup Range(ins) |->
                IF x \in Range(ins) THEN LayerValue(sl_id) ELSE a.out_layers[x]]
    IN
    IF rgn.kind = "region" /\ rgn.inputs = <<>>
    THEN LET num_sum_units == IF is_output THEN args.num_classes ELSE a.num_sum_units
             input_sl == input_factory(n + 1, args.input_cls, rgn.scope,
                                       args.num_input_units, args.num_channels)
             sum_sl == sum_factory(n + 2, rgn.scope, num_sum_units)
         IN  FromRegionGraphLoop(nodes, args, k + 1,
                [layers |-> a.layers \o <<input_sl, sum_sl>>,
                 in_layers |-> DictSet(a.in_layers, sum_sl.id, <<input_sl.id>>),
                 out_layers |-> DictSet(a.out_layers, input_sl.id,
                     ListValue(Append(OutGet(a.out_layers, input_sl.id).items, sum_sl.id))),
                 rgn_to_layers |-> DictSet(a.rgn_to_layers, k, sum_sl.id),
                 num_sum_units |-> num_sum_units])
    ELSE IF rgn.kind = "partition"
    THEN LET prod_sl == prod_factory(n + 1, rgn.scope, a.num_sum_units)
         IN  FromRegionGraphLoop(nodes, args, k + 1,
                [layers |-> Append(a.layers, prod_sl),
                 in_layers |-> DictSet(a.in_layers, prod_sl.id, ins),
                 out_layers |-> outs_assigned(prod_sl.id),
                 rgn_to_layers |-> DictSet(a.rgn_to_layers, k, prod_sl.id),
                 num_sum_units |-> a.num_sum_units])
    ELSE LET num_sum_units == IF is_output THEN args.num_classes ELSE a.num_sum_units
             sum_sl == IF Len(ins) = 1
                       THEN sum_factory(n + 1, rgn.scope, num_sum_units)
                       ELSE SymbMixingLayer(n + 1, rgn.scope, num_sum_units)
         IN  FromRegionGraphLoop(nodes, args, k + 1,
                [layers |-> Append(a.layers, sum_sl),
                 in_layers |-> DictSet(a.in_layers, sum_sl.id, ins),
                 out_layers |-> outs_assigned(sum_sl.id),
                 rgn_to_layers |-> DictSet(a.rgn_to_layers, k, sum_sl.id),
                 num_sum_units |-> num_sum_units])

from_region_graph(nodes, args) ==
    LET a == FromRegionGraphLoop(nodes, args, 1,
                [layers |-> <<>>, in_layers |-> <<>>, out_layers |-> <<>>,
                 rgn_to_layers |-> <<>>, num_sum_units |-> args.num_sum_units])
    IN  SymbCircuit(args.circuit_id, RegionGraphScope(nodes), a.layers, a.in_layers, a.out_layers,
                    NoCircuitOperation)

(***************************************************************************)
(* Layer views and structural properties of SymbCircuit.                   *)
(***************************************************************************)
layer_inputs(c, sl) == DefaultGet(c.in_layers, sl.id)

input_layers(c) == SelectSeq(c.layers, IsInputLayer)
sum_layers(c) == SelectSeq(c.layers, IsSumLayer)
product_layers(c) == SelectSeq(c.layers, IsProdLayer)

output_layers(c) ==
    LET IsOutput(l) == ~Truthy(OutGet(c.out_layers, l.id))
    IN  SelectSeq(c.layers, IsOutput)

\* a view that yields every layer
every_layer(c) == c.layers

inner_layers(c) ==
    LET IsInner(l) == DefaultGet(c.in_layers, l.id) # <<>>
    IN  SelectSeq(c.layers, IsInner)

is_smooth(c) ==
    \A s \in DOMAIN sum_layers(c) :
        LET sum_sl == sum_layers(c)[s]
            ins == DefaultGet(c.in_layers, sum_sl.id)
        IN  \A i \in DOMAIN ins : sum_sl.scope = LayerById(c, ins[i]).scope

\* itertools.combinations(inputs, 2): the pairs of positions i < j
is_decomposable(c) ==
    ~ \E s \in DOMAIN product_layers(c) :
        LET prod_sl == product_layers(c)[s]
            ins == DefaultGet(c.in_layers, prod_sl.id)
        IN  \E i, j \in DOMAIN ins :
                /\ i < j
                /\ LET lhs_in_sl == LayerById(c, ins[i])
                       rhs_in_sl == LayerById(c, ins[j])
                   IN  (lhs_in_sl.scope \cap lhs_in_sl.scope) # {}

is_compatible(c, oth) ==
    IF ~is_smooth(c) THEN FALSE
    ELSE IF ~is_decomposable(c) THEN FALSE
    ELSE FALSE

is_structured_decomposable(c) == is_compatible(c, c)

is_omni_compatible(c) ==
    IF ~is_smooth(c) THEN FALSE
    ELSE IF ~is_decomposable(c) THEN FALSE
    ELSE FALSE

(***************************************************************************)
(* functional.integrate.  registry is the set of layer classes an          *)
(* INTEGRATION rule is registered for; scope_arg is the scope argument     *)
(* (given = FALSE: None); new names the objects the call allocates: the    *)
(* identity of the result circuit and of its layers (first_id + 1, ...).   *)
(***************************************************************************)
NoScope == [given |-> FALSE, vars |-> {}]
SomeScope(vs) == [given |-> TRUE, vars |-> vs]

BaseInputClass == "SymInputLayer"

has_rule(registry, cls) == cls \in registry

\* The integration rule of an input layer (operators.integrate_ef_layer): a constant
\* layer over the same scope, with the same number of units and channels.
integrate_ef_layer(sl, id, rule) ==
    SymbLayer(id, "ConstantLayer", sl.scope, sl.num_units, sl.arity,
              [operator |-> "INTEGRATION", operands |-> <<sl.id>>, rule |-> rule])

\* a lookup that always takes the rule of the base input-layer type
retrieve_fallback_rule(registry, sl) == BaseInputClass

\* the key of the rule integrate applies to an input layer (lines 62-65): the layer's
\* own type when a rule is registered for it, the base input-layer type otherwise
retrieve_integration_rule(registry, sl) ==
    IF has_rule(registry, sl.cls) THEN sl.cls ELSE BaseInputClass

\* new_sl_inputs: the images under map_layers of a layer's inputs, in order (line 69)
RemapInputsIdentity(map_layers, ins) == ins

RemapInputs(map_layers, ins) == [i \in DOMAIN ins |-> map_layers[ins[i]]]

\* The copy of a sum or product layer (lines 70-75)
CopyLayerDefaultArity(sl, id) ==
    SymbLayer(id, sl.cls, sl.scope, sl.num_units, 2,
              [operator |-> "NOP", operands |-> <<sl.id>>, rule |-> "NONE"])

CopyLayer(sl, id) ==
    SymbLayer(id, sl.cls, sl.scope, sl.num_units, sl.arity,
              [operator |-> "NOP", operands |-> <<sl.id>>, rule |-> "NONE"])

MaxLayerId(c) ==
    IF c.layers = <<>> THEN 0
    ELSE CHOOSE m \in {l.id : l \in Range(c.layers)} :
            \A l \in Range(c.layers) : l.id <= m

\* One iteration of the loop over sc.layers (lines 54-79) per call.  a holds
\* map_layers, the new in_layers / out_layers, the layers in the order map_layers
\* received them, the number of rules applied, and the operand (whose in_layers
\* is a defaultdict that layer_inputs reads).
RECURSIVE IntegrateLoop(_, _, _, _, _)
IntegrateLoop(scope, registry, first_id, k, a) ==
    IF k > Len(a.operand.layers) \/ a.err # "none" THEN a
    ELSE
    LET sl == a.operand.layers[k]
        id == first_id + k
    IN
    IF IsInputLayer(sl) /\ (sl.scope \cap scope) # {}
    THEN IF ~(sl.scope \subseteq scope)
         THEN [a EXCEPT !.err = "NotImplementedError"]
         ELSE IF ~has_rule(registry, sl.cls) /\ ~has_rule(registry, BaseInputClass)
         THEN [a EXCEPT !.err = "NoRuleError"]
         ELSE LET rule == retrieve_integration_rule(registry, sl)
                  new_sl == integrate_ef_layer(sl, id, rule)
              IN  IntegrateLoop(scope, registry, first_id, k + 1,
                     [a EXCEPT !.map_layers = DictSet(@, sl.id, new_sl.id),
                               !.layers = Append(@, new_sl),
                               !.rules_applied = @ + 1])
    ELSE IF ~(IsSumLayer(sl) \/ IsProdLayer(sl))
    THEN [a EXCEPT !.err = "AssertionError"]
    ELSE LET ins == layer_inputs(a.operand, sl)
             operand == [a.operand EXCEPT !.in_layers = DefaultTouch(@, sl.id)]
         IN  IF \E i \in DOMAIN ins : ins[i] \notin DOMAIN a.map_layers
             THEN [a EXCEPT !.err = "KeyError", !.operand = operand]
             ELSE LET new_sl_inputs == RemapInputs(a.map_layers, ins)
                      new_sl == CopyLayer(sl, id)
                  IN  IntegrateLoop(scope, registry, first_id, k + 1,
                         [a EXCEPT
                            !.operand = operand,
                            !.map_layers = DictSet(@, sl.id, new_sl.id),
                            !.layers = Append(@, new_sl),
                            !.in_layers = DictSet(@, new_sl.id, new_sl_inputs),
                            !.out_layers =
                                [x \in (DOMAIN @) \cup Range(new_sl_inputs) |->
                                    IF x \in Range(new_sl_inputs)
                                    THEN ListValue(new_sl_inputs)
                                    ELSE @[x]]])

\* The test on the requested scope (lines 40-41): it must lie within the circuit's
ScopeAlwaysWithin(scope, c) == TRUE

ScopeWithin(scope, c) == (scope \cup c.scope) = c.scope

IntegrateRaise(c, err, rules_applied) ==
    [err |-> err, circuit |-> NoCircuit, operand |-> c, map_layers |-> <<>>,
     rules_applied |-> rules_applied]

integrate(c, scope_arg, registry, new) ==
    IF ~is_smooth(c) \/ ~is_decomposable(c)
    THEN IntegrateRaise(c, "StructuralPropertyError", 0)
    ELSE
    LET scope == IF scope_arg.given THEN scope_arg.vars ELSE c.scope
    IN
    IF ~ScopeWithin(scope, c)
    THEN IntegrateRaise(c, "ValueError", 0)
    ELSE
    LET a == IntegrateLoop(scope, registry, new.first_id, 1,
                [err |-> "none", operand |-> c, map_layers |-> <<>>, layers |-> <<>>,
                 in_layers |-> <<>>, out_layers |-> <<>>, rules_applied |-> 0])
    IN
    IF a.err # "none"
    THEN IntegrateRaise(a.operand, a.err, a.rules_applied)
    ELSE [err |-> "none",
          circuit |-> SymbCircuit(new.circuit_id, c.scope, a.layers, a.in_layers, a.out_layers,
                         [operator |-> "INTEGRATION", operands |-> <<c.id>>,
                          scope |-> scope]),
          operand |-> a.operand,
          map_layers |-> a.map_layers,
          rules_applied |-> a.rules_applied]

\* multiply: the compatibility test, then an elided body
multiply(lhs_sc, rhs_sc) ==
    IF ~is_compatible(lhs_sc, rhs_sc)
    THEN [err |-> "StructuralPropertyError", circuit |-> NoCircuit]
    ELSE [err |-> "none", circuit |-> NoCircuit]

\* differentiate: the test of the structural properties, then an elided body: a call
\* that passes the test returns None
differentiate(c) ==
    IF ~is_smooth(c) \/ ~is_decomposable(c)
    THEN [err |-> "StructuralPropertyError", circuit |-> NoCircuit]
    ELSE [err |-> "none", circuit |-> NoCircuit]

(***************************************************************************)
(* Sequential compilation: one rule call at a time.                        *)
(***************************************************************************)
CompileParameter(p) ==
    /\ Len(returned) < MaxCalls
    /\ \E fold \in FoldIndices :
         LET r == DEFAULT_PARAMETER_COMPILATION_RULES(p, compiled_parameters, tensors, fold)
         IN  /\ compiled_parameters' = r.state
             /\ tensors' = r.tensors
             /\ returned' = Append(returned, [p |-> p, result |-> r.result])
    /\ UNCHANGED <<par_vars, sym_vars, pipe_vars, graph_vars, layer_vars, param_vars>>

CompileTensorParameter == \E p \in TensorParameters : CompileParameter(p)

CompileConstantParameter == \E p \in ConstantParameters : CompileParameter(p)

vars == <<compiled_parameters, tensors, returned, par_pc, par_p, par_local,
          rg_nodes, sym_pc, sc, int_sc, int_call, pipe, pipe_compiles, pipe_call,
          diff_call, topo_call, rg_call, made, mul_calls, param_call>>

CompilerInit ==
    /\ compiled_parameters = <<>>
    /\ tensors = <<>>
    /\ returned = <<>>

ParIdle ==
    /\ par_pc = [t \in Compilations |-> "idle"]
    /\ par_p = [t \in Compilations |-> TensorParameter(1)]
    /\ par_local = [t \in Compilations |-> 0]


(***************************************************************************)
(* Two compilations sharing one compiler state, each inside a call of      *)
(* compile_tensor_parameter.  The rule takes no lock, so the host's        *)
(* threads interleave between its statements: the has_compiled_parameter   *)
(* test (line 81), the retrieve and return (82-83), the construction of    *)
(* the TorchTensorParameter (87-91) and the registration (94-95).          *)
(***************************************************************************)
ParCheck(t) ==
    /\ par_pc[t] = "idle"
    /\ Len(returned) + Cardinality({u \in Compilations : par_pc[u] # "idle"}) < MaxParCalls
    /\ \E p \in TensorParameters :
         /\ par_p' = [par_p EXCEPT ![t] = p]
         /\ par_pc' = [par_pc EXCEPT ![t] =
                IF has_compiled_parameter(compiled_parameters, p) THEN "hit" ELSE "miss"]
    /\ UNCHANGED <<compiler_vars, par_local, sym_vars, pipe_vars, graph_vars, layer_vars, param_vars>>

ParPointer(t) ==
    /\ par_pc[t] = "hit"
    /\ LET e == retrieve_compiled_parameter(compiled_parameters, par_p[t])
       IN  returned' = Append(returned,
               [p |-> par_p[t], result |-> TorchPointerParameter(e.param, e.fold_idx)])
    /\ par_pc' = [par_pc EXCEPT ![t] = "idle"]
    /\ UNCHANGED <<compiled_parameters, tensors, par_p, par_local, sym_vars, pipe_vars, graph_vars, layer_vars, param_vars>>

ParConstruct(t) ==
    /\ par_pc[t] = "miss"
    /\ tensors' = Append(tensors, TorchTensorParameter(par_p[t], TRUE))
    /\ par_local' = [par_local EXCEPT ![t] = Len(tensors) + 1]
    /\ par_pc' = [par_pc EXCEPT ![t] = "constructed"]
    /\ UNCHANGED <<compiled_parameters, returned, par_p, sym_vars, pipe_vars, graph_vars, layer_vars, param_vars>>

ParRegister(t) ==
    /\ par_pc[t] = "constructed"
    /\ \E fold \in FoldIndices :
         compiled_parameters' =
             register_compiled_parameter(compiled_parameters, par_p[t], par_local[t], fold)
    /\ returned' = Append(returned, [p |-> par_p[t], result |-> TensorResult(par_local[t])])
    /\ par_pc' = [par_pc EXCEPT ![t] = "idle"]
    /\ UNCHANGED <<tensors, par_p, par_local, sym_vars, pipe_vars, graph_vars, layer_vars, param_vars>>

ParNext ==
    \E t \in Compilations :
        ParCheck(t) \/ ParPointer(t) \/ ParConstruct(t) \/ ParRegister(t)

(***************************************************************************)
(* The symbolic pipeline: a region graph is put together node by node (in  *)
(* topological order, as the region graph provides them), a circuit is     *)
(* built from it, and the circuit is integrated.                           *)
(***************************************************************************)
RegionIndices == {i \in DOMAIN rg_nodes : rg_nodes[i].kind = "region"}
PartitionIndices == {i \in DOMAIN rg_nodes : rg_nodes[i].kind = "partition"}

\* The sequences of 1 .. MaxArity distinct members of S
InputSeqs(S) ==
    UNION {{q \in [1 .. n -> S] : \A i, j \in 1 .. n : i # j => q[i] # q[j]} :
              n \in 1 .. MaxArity}

\* The region graph lists its leaf regions first.
AddInputRegion ==
    /\ sym_pc = "rg"
    /\ Len(rg_nodes) < MaxNodes
    /\ PartitionIndices = {}
    /\ \E scope \in Scopes \ {{}} :
         rg_nodes' = Append(rg_nodes, RegionNode(scope, <<>>))
    /\ UNCHANGED <<sym_pc, sc, int_sc, int_call, compiler_vars, par_vars, pipe_vars, graph_vars, layer_vars, param_vars>>

AddPartition ==
    /\ sym_pc = "rg"
    /\ Len(rg_nodes) < MaxNodes
    /\ \E ins \in InputSeqs(RegionIndices) :
         rg_nodes' = Append(rg_nodes,
             PartitionNode(UnionOf({rg_nodes[i].scope : i \in Range(ins)}), ins))
    /\ UNCHANGED <<sym_pc, sc, int_sc, int_call, compiler_vars, par_vars, pipe_vars, graph_vars, layer_vars, param_vars>>

AddInnerRegion ==
    /\ sym_pc = "rg"
    /\ Len(rg_nodes) < MaxNodes
    /\ \E ins \in InputSeqs(PartitionIndices), scope \in Scopes \ {{}} :
         rg_nodes' = Append(rg_nodes, RegionNode(scope, ins))
    /\ UNCHANGED <<sym_pc, sc, int_sc, int_call, compiler_vars, par_vars, pipe_vars, graph_vars, layer_vars, param_vars>>

FromRegionGraph ==
    /\ sym_pc = "rg"
    /\ rg_nodes # <<>>
    /\ \E num_sum_units \in UnitCounts, num_classes \in UnitCounts,
          input_cls \in InputClasses :
         /\ sc' = from_region_graph(rg_nodes,
                   [num_channels |-> 1, num_input_units |-> 1,
                    num_sum_units |-> num_sum_units, num_classes |-> num_classes,
                    input_cls |-> input_cls, first_id |-> 0, circuit_id |-> 1])
         /\ rg_call' = [num_sum_units |-> num_sum_units, num_classes |-> num_classes,
                        input_cls |-> input_cls]
    /\ sym_pc' = "built"
    /\ UNCHANGED <<rg_nodes, int_sc, int_call, diff_call, topo_call, compiler_vars, par_vars,
                   pipe_vars, layer_vars, param_vars>>

Registries == {{BaseInputClass}, {"CategoricalLayer", BaseInputClass}, {"GaussianLayer"}}

NoCall == [scope_arg |-> NoScope, registry |-> {}, err |-> "none", rules_applied |-> 0,
           map_layers |-> <<>>, operand |-> NoCircuit]

Integrate ==
    /\ sym_pc = "built"
    /\ \E scope_arg \in {NoScope} \cup {SomeScope(vs) : vs \in Scopes},
          registry \in Registries :
         LET r == integrate(sc, scope_arg, registry,
                            [first_id |-> MaxLayerId(sc), circuit_id |-> sc.id + 1])
         IN  /\ sc' = r.operand
             /\ int_sc' = r.circuit
             /\ int_call' = [scope_arg |-> scope_arg, registry |-> registry,
                             err |-> r.err, rules_applied |-> r.rules_applied,
                             map_layers |-> r.map_layers, operand |-> sc]
    /\ sym_pc' = "integrated"
    /\ UNCHANGED <<rg_nodes, compiler_vars, par_vars, pipe_vars, graph_vars, layer_vars, param_vars>>

Differentiate ==
    /\ sym_pc = "built"
    /\ LET r == differentiate(sc)
       IN  diff_call' = [err |-> r.err, circuit |-> r.circuit, operand |-> sc]
    /\ sym_pc' = "differentiated"
    /\ UNCHANGED <<rg_nodes, sc, int_sc, int_call, topo_call, rg_call, compiler_vars,
                   par_vars, pipe_vars, layer_vars, param_vars>>

SymInit ==
    /\ rg_nodes = <<>>
    /\ sym_pc = "rg"
    /\ sc = NoCircuit
    /\ int_sc = NoCircuit
    /\ int_call = NoCall

SymNext ==
    \/ AddInputRegion \/ AddPartition \/ AddInnerRegion \/ FromRegionGraph
    \/ Integrate \/ Differentiate

(***************************************************************************)
(* The pipeline of the compilation tests: two circuits p and q over one    *)
(* region graph, the circuits derived from them by multiply and integrate, *)
(* and one compiler whose state all the compilations share.                *)
(***************************************************************************)
PipeCircuitIds == {c.id : c \in Range(pipe)}
PipeLayers == UNION {Range(c.layers) : c \in Range(pipe)}
PipeLayer(id) == CHOOSE l \in PipeLayers : l.id = id

\* The leaf parameters a layer holds (Layer.params): a tensor parameter for an input
\* or sum layer the factories made, none for a product layer; the constant of an
\* integrated input layer; a copy (NOP) refers to the parameters of the layer it copies.
RECURSIVE LayerParameters(_)
LayerParameters(l) ==
    IF l.operation.operator = "INTEGRATION" THEN <<ConstantParameter(l.id)>>
    ELSE IF l.operation.operator = "NOP"
         THEN LayerParameters(PipeLayer(l.operation.operands[1]))
    ELSE IF IsProdLayer(l) THEN <<>>
    ELSE <<TensorParameter(l.id)>>

RECURSIVE CircuitParametersFrom(_, _)
CircuitParametersFrom(c, k) ==
    IF k > Len(c.layers) THEN <<>>
    ELSE LayerParameters(c.layers[k]) \o CircuitParametersFrom(c, k + 1)

CircuitParameters(c) == CircuitParametersFrom(c, 1)

\* TorchCompiler.compile: every leaf parameter of the circuit's layers, in layer
\* order, goes through the parameter compilation rules on the compiler's state.
RECURSIVE CompileParameters(_, _, _)
CompileParameters(ps, k, a) ==
    IF k > Len(ps) THEN a
    ELSE LET r == DEFAULT_PARAMETER_COMPILATION_RULES(ps[k], a.state, a.tensors,
                                                      (k - 1) % (MaxFoldIdx + 1))
         IN  CompileParameters(ps, k + 1,
                [state |-> r.state, tensors |-> r.tensors,
                 returned |-> Append(a.returned, [p |-> ps[k], result |-> r.result])])

compile(c, st, ts, rets) ==
    CompileParameters(CircuitParameters(c), 1,
                      [state |-> st, tensors |-> ts, returned |-> rets])

NoPipeCall == [op |-> "none", args |-> <<>>, err |-> "none", result |-> 0, first |-> 0]

\* p and q: two circuits over the same region graph, with different numbers of units
PipeBuild ==
    /\ sym_pc = "rg"
    /\ rg_nodes # <<>>
    /\ LET args == [num_channels |-> 1, num_input_units |-> 1, num_sum_units |-> 1,
                    num_classes |-> 1, input_cls |-> "CategoricalLayer",
                    first_id |-> 0, circuit_id |-> 1]
           p == from_region_graph(rg_nodes, args)
           q == from_region_graph(rg_nodes,
                    [args EXCEPT !.num_sum_units = MaxUnits,
                                 !.first_id = Len(p.layers), !.circuit_id = 2])
       IN  pipe' = <<p, q>>
    /\ sym_pc' = "pipeline"
    /\ pipe_call' = [NoPipeCall EXCEPT !.op = "build", !.args = <<1, 2>>]
    /\ UNCHANGED <<rg_nodes, sc, int_sc, int_call, pipe_compiles, compiler_vars, par_vars, graph_vars, layer_vars, param_vars>>

\* compiler.compile(c): the operands of a derived circuit are compiled before it
PipeCompile ==
    /\ sym_pc = "pipeline"
    /\ Len(pipe_compiles) < MaxCompileCalls
    /\ \E i \in DOMAIN pipe :
         /\ Range(pipe[i].operation.operands) \subseteq Range(pipe_compiles)
         /\ LET r == compile(pipe[i], compiled_parameters, tensors, returned)
            IN  /\ compiled_parameters' = r.state
                /\ tensors' = r.tensors
                /\ returned' = r.returned
         /\ pipe_compiles' = Append(pipe_compiles, pipe[i].id)
         /\ pipe_call' = [NoPipeCall EXCEPT !.op = "compile", !.args = <<pipe[i].id>>,
                                            !.result = pipe[i].id,
                                            !.first = Len(returned) + 1]
    /\ UNCHANGED <<sym_vars, pipe, par_vars, graph_vars, layer_vars, param_vars>>

\* SF.multiply(lhs, rhs) on two circuits of the pipeline, the earlier one on the left
PipeMultiply ==
    /\ sym_pc = "pipeline"
    /\ \E i, j \in DOMAIN pipe :
         /\ i < j
         /\ LET r == multiply(pipe[i], pipe[j])
            IN  /\ pipe' = IF r.err = "none" THEN Append(pipe, r.circuit) ELSE pipe
                /\ pipe_call' = [NoPipeCall EXCEPT !.op = "multiply",
                                   !.args = <<pipe[i].id, pipe[j].id>>, !.err = r.err,
                                   !.result = r.circuit.id]
    /\ UNCHANGED <<sym_vars, pipe_compiles, compiler_vars, par_vars, graph_vars, layer_vars, param_vars>>

\* SF.integrate(c), over the whole scope, with the default registry
PipeIntegrate ==
    /\ sym_pc = "pipeline"
    /\ Len(pipe) < MaxCircuits
    /\ \E i \in DOMAIN pipe :
         LET r == integrate(pipe[i], NoScope, {"CategoricalLayer", BaseInputClass},
                            [first_id |-> Cardinality(PipeLayers),
                             circuit_id |-> Len(pipe) + 1])
             operands == [pipe EXCEPT ![i] = r.operand]
         IN  /\ pipe' = IF r.err = "none" THEN Append(operands, r.circuit) ELSE operands
             /\ pipe_call' = [NoPipeCall EXCEPT !.op = "integrate",
                                !.args = <<pipe[i].id>>, !.err = r.err,
                                !.result = r.circuit.id]
    /\ UNCHANGED <<sym_vars, pipe_compiles, compiler_vars, par_vars, graph_vars, layer_vars, param_vars>>

PipeInit ==
    /\ pipe = <<>>
    /\ pipe_compiles = <<>>
    /\ pipe_call = NoPipeCall

PipeNext ==
    \/ AddInputRegion \/ AddPartition \/ AddInnerRegion
    \/ PipeBuild \/ PipeCompile \/ PipeMultiply \/ PipeIntegrate

(***************************************************************************)
(* Symbolic layers and their parameters (layers.py, params.py).  A         *)
(* constructor call yields <<err, layer>>: the error it raised, or "none"  *)
(* and the layer.                                                          *)
(***************************************************************************)
Channels == 1 .. MaxChannels
Categories == 1 .. MaxCategories
Arities == 1 .. MaxArity

\* a symbolic parameter: the operator at its root and its shape
NoParameter == [op |-> "None", shape |-> <<>>, err |-> "none"]

Parameter(shape) == [op |-> "Tensor", shape |-> shape, err |-> "none"]

\* a reference to a parameter of a layer: it has the shape of that parameter
PlaceholderParameter(layer, name) ==
    [op |-> "Placeholder", shape |-> layer.params[name].shape, err |-> "none"]

\* a parameter that takes its shape from its first operand
KroneckerParameterFirstShape(opd1, opd2) ==
    [op |-> "Kronecker", shape |-> opd1.shape, err |-> "none"]

KroneckerParameter(opd1, opd2) ==
    IF Len(opd1.shape) # Len(opd2.shape)
    THEN [op |-> "Kronecker", shape |-> <<>>, err |-> "AssertionError"]
    ELSE [op |-> "Kronecker",
          shape |-> [i \in DOMAIN opd1.shape |-> opd1.shape[i] * opd2.shape[i]],
          err |-> "none"]

NoParams == [weight |-> NoParameter, logits |-> NoParameter, probs |-> NoParameter,
             mean |-> NoParameter, stddev |-> NoParameter]

Layer(cls, scope, num_input_units, num_output_units, arity) ==
    [cls |-> cls, scope |-> scope, num_input_units |-> num_input_units,
     num_output_units |-> num_output_units, arity |-> arity, params |-> NoParams]

NoLayer == Layer("None", {}, 0, 0, 0)

Rejected(err) == [err |-> err, layer |-> NoLayer]
Accepted(layer) == [err |-> "none", layer |-> layer]

\* InputLayer.__init__: num_input_units is the number of variables, arity the channels
InputLayer(cls, scope, num_output_units, num_channels) ==
    Layer(cls, scope, Cardinality(scope), num_output_units, num_channels)

NumChannels(layer) == layer.arity

CategoricalLayer(scope, num_output_units, channels, num_categories, logits, probs) ==
    IF Cardinality(scope) # 1 THEN Rejected("ValueError")
    ELSE IF logits # NoParameter /\ probs # NoParameter THEN Rejected("ValueError")
    ELSE IF num_categories < 2 THEN Rejected("ValueError")
    ELSE
    LET self == InputLayer("CategoricalLayer", scope, num_output_units, channels)
        probs_logits_shape == <<self.num_output_units, NumChannels(self), num_categories>>
        logits1 == IF logits = NoParameter /\ probs = NoParameter
                   THEN Parameter(probs_logits_shape) ELSE logits
    IN  IF logits1 # NoParameter /\ logits1.shape # probs_logits_shape
        THEN Rejected("ValueError")
        ELSE IF probs # NoParameter /\ probs.shape # probs_logits_shape
        THEN Rejected("ValueError")
        ELSE Accepted([self EXCEPT !.params.probs = probs, !.params.logits = logits1])

GaussianLayer(scope, num_output_units, channels, mean, stddev) ==
    IF Cardinality(scope) # 1 THEN Rejected("ValueError")
    ELSE
    LET self == InputLayer("GaussianLayer", scope, num_output_units, channels)
        mean_stddev_shape == <<self.num_output_units, NumChannels(self)>>
        mean1 == IF mean = NoParameter THEN Parameter(mean_stddev_shape) ELSE mean
        stddev1 == IF stddev = NoParameter THEN Parameter(mean_stddev_shape) ELSE stddev
    IN  IF mean1.shape # mean_stddev_shape THEN Rejected("ValueError")
        ELSE IF stddev1.shape # mean_stddev_shape THEN Rejected("ValueError")
        ELSE Accepted([self EXCEPT !.params.mean = mean1, !.params.stddev = stddev1])

\* a Hadamard layer constructor without the test on the arity
HadamardLayerAnyArity(scope, num_input_units, arity) ==
    Accepted(Layer("HadamardLayer", scope, num_input_units, num_input_units, arity))

HadamardLayer(scope, num_input_units, arity) ==
    IF arity < 2 THEN Rejected("ValueError")
    ELSE Accepted(Layer("HadamardLayer", scope, num_input_units, num_input_units, arity))

KroneckerLayer(scope, num_input_units, arity) ==
    Accepted(Layer("KroneckerLayer", scope, num_input_units, num_input_units ^ arity, arity))

DenseLayer(scope, num_input_units, num_output_units, weight) ==
    LET self == Layer("DenseLayer", scope, num_input_units, num_output_units, 1)
        weight_shape == <<self.num_output_units, self.num_input_units>>
        weight1 == IF weight = NoParameter THEN Parameter(weight_shape) ELSE weight
    IN  IF weight1.shape # weight_shape THEN Rejected("ValueError")
        ELSE Accepted([self EXCEPT !.params.weight = weight1])

MixingLayer(scope, num_units, arity, weight) ==
    LET self == Layer("MixingLayer", scope, num_units, num_units, arity)
        weight_shape == <<self.num_input_units, self.arity>>
        weight1 == IF weight = NoParameter THEN Parameter(weight_shape) ELSE weight
    IN  IF weight1.shape # weight_shape THEN Rejected("ValueError")
        ELSE Accepted([self EXCEPT !.params.weight = weight1])

\* the layer that permutes the units of a product of Kronecker layers
IndexLayer(scope, num_input_units, num_output_units) ==
    Layer("IndexLayer", scope, num_input_units, num_output_units, 1)

(***************************************************************************)
(* The multiplication rules (operators.py).  A rule call yields            *)
(* <<err, layers>>: the layers of the block it returns.                    *)
(***************************************************************************)
Block(r) == [err |-> r.err, layers |-> IF r.err = "none" THEN <<r.layer>> ELSE <<>>]

\* The input layer a multiplication rule constructs from a scope, a number of
\* output units and a number of channels
ProductInputLayer(cls, scope, num_output_units, channels) ==
    IF Cardinality(scope) # 1 THEN Rejected("ValueError")
    ELSE Accepted(InputLayer(cls, scope, num_output_units, channels))

multiply_categorical_layers(lhs, rhs) ==
    IF NumChannels(lhs) # NumChannels(rhs)
    THEN Block(Rejected("AssertionError"))
    ELSE Block(ProductInputLayer("CategoricalLayer", lhs.scope \cup rhs.scope,
                                 lhs.num_output_units * rhs.num_input_units,
                                 NumChannels(lhs)))

multiply_gaussian_layers(lhs, rhs) ==
    IF NumChannels(lhs) # NumChannels(rhs)
    THEN Block(Rejected("AssertionError"))
    ELSE Block(ProductInputLayer("GaussianLayer", lhs.scope \cup rhs.scope,
                                 lhs.num_output_units * rhs.num_input_units,
                                 NumChannels(lhs)))

Max(a, b) == IF a >= b THEN a ELSE b

multiply_hadamard_layers(lhs, rhs) ==
    Block(HadamardLayer(lhs.scope \cup rhs.scope,
                        lhs.num_input_units * rhs.num_input_units,
                        Max(lhs.arity, rhs.arity)))

multiply_kronecker_layers(lhs, rhs) ==
    LET sl == KroneckerLayer(lhs.scope \cup rhs.scope,
                             lhs.num_input_units * rhs.num_input_units,
                             Max(lhs.arity, rhs.arity)).layer
        sil == IndexLayer(lhs.scope \cup rhs.scope, sl.num_output_units, sl.num_output_units)
    IN  [err |-> "none", layers |-> <<sl, sil>>]

multiply_dense_layers(lhs, rhs) ==
    LET weight == KroneckerParameter(PlaceholderParameter(lhs, "weight"),
                                     PlaceholderParameter(rhs, "weight"))
    IN  IF weight.err # "none" THEN Block(Rejected(weight.err))
        ELSE Block(DenseLayer(lhs.scope \cup rhs.scope,
                              lhs.num_input_units * rhs.num_input_units,
                              lhs.num_output_units * rhs.num_output_units,
                              weight))

multiply_mixing_layers(lhs, rhs) ==
    LET weight == KroneckerParameter(PlaceholderParameter(lhs, "weight"),
                                     PlaceholderParameter(rhs, "weight"))
    IN  IF weight.err # "none" THEN Block(Rejected(weight.err))
        ELSE Block(MixingLayer(lhs.scope \cup rhs.scope,
                               lhs.num_input_units * rhs.num_input_units,
                               lhs.arity * rhs.arity,
                               weight))

\* DEFAULT_OPERATOR_RULES[MULTIPLICATION]: the rule for a pair of layers of one class
MultiplicationClasses ==
    {"CategoricalLayer", "GaussianLayer", "HadamardLayer", "KroneckerLayer",
     "DenseLayer", "MixingLayer"}

DEFAULT_OPERATOR_RULES(lhs, rhs) ==
    CASE lhs.cls = "CategoricalLayer" -> multiply_categorical_layers(lhs, rhs)
      [] lhs.cls = "GaussianLayer" -> multiply_gaussian_layers(lhs, rhs)
      [] lhs.cls = "HadamardLayer" -> multiply_hadamard_layers(lhs, rhs)
      [] lhs.cls = "KroneckerLayer" -> multiply_kronecker_layers(lhs, rhs)
      [] lhs.cls = "DenseLayer" -> multiply_dense_layers(lhs, rhs)
      [] lhs.cls = "MixingLayer" -> multiply_mixing_layers(lhs, rhs)

(***************************************************************************)
(* Layers are constructed, with any hyperparameters and parameters, and    *)
(* pairs of them are multiplied by the rule of their class.                *)
(***************************************************************************)
NoArgs == [scope |-> {}, num_input_units |-> 0, num_output_units |-> 0, arity |-> 0,
           num_categories |-> 0, weight |-> NoParameter, logits |-> NoParameter,
           probs |-> NoParameter]

\* the parameters a caller may hand a constructor that expects the given shape:
\* none, one of that shape, one of another shape
ParameterChoices(shape) ==
    {NoParameter, Parameter(shape), Parameter([shape EXCEPT ![1] = @ + 1])}

Made(cls, args, r) == [cls |-> cls, args |-> args, err |-> r.err, layer |-> r.layer]

NewCategoricalLayer ==
    /\ Len(made) < MaxLayersMade
    /\ \E scope \in Scopes \ {{}}, units \in UnitCounts, ch \in Channels, nc \in Categories :
         \E logits \in ParameterChoices(<<units, ch, nc>>),
            probs \in {NoParameter, Parameter(<<units, ch, nc>>)} :
           made' = Append(made,
               Made("CategoricalLayer",
                    [NoArgs EXCEPT !.scope = scope, !.num_output_units = units,
                                   !.arity = ch, !.num_categories = nc,
                                   !.logits = logits, !.probs = probs],
                    CategoricalLayer(scope, units, ch, nc, logits, probs)))
    /\ UNCHANGED <<mul_calls, compiler_vars, par_vars, sym_vars, pipe_vars, graph_vars, param_vars>>

NewGaussianLayer ==
    /\ Len(made) < MaxLayersMade
    /\ \E scope \in Scopes \ {{}}, units \in UnitCounts, ch \in Channels :
         \E mean \in ParameterChoices(<<units, ch>>) :
           made' = Append(made,
               Made("GaussianLayer",
                    [NoArgs EXCEPT !.scope = scope, !.num_output_units = units,
                                   !.arity = ch, !.weight = mean],
                    GaussianLayer(scope, units, ch, mean, NoParameter)))
    /\ UNCHANGED <<mul_calls, compiler_vars, par_vars, sym_vars, pipe_vars, graph_vars, param_vars>>

NewHadamardLayer ==
    /\ Len(made) < MaxLayersMade
    /\ \E scope \in Scopes \ {{}}, units \in UnitCounts, arity \in Arities :
         made' = Append(made,
             Made("HadamardLayer",
                  [NoArgs EXCEPT !.scope = scope, !.num_input_units = units,
                                 !.arity = arity],
                  HadamardLayer(scope, units, arity)))
    /\ UNCHANGED <<mul_calls, compiler_vars, par_vars, sym_vars, pipe_vars, graph_vars, param_vars>>

NewKroneckerLayer ==
    /\ Len(made) < MaxLayersMade
    /\ \E scope \in Scopes \ {{}}, units \in UnitCounts, arity \in Arities :
         made' = Append(made,
             Made("KroneckerLayer",
                  [NoArgs EXCEPT !.scope = scope, !.num_input_units = units,
                                 !.arity = arity],
                  KroneckerLayer(scope, units, arity)))
    /\ UNCHANGED <<mul_calls, compiler_vars, par_vars, sym_vars, pipe_vars, graph_vars, param_vars>>

NewDenseLayer ==
    /\ Len(made) < MaxLayersMade
    /\ \E scope \in Scopes \ {{}}, nin \in UnitCounts, nout \in UnitCounts :
         \E weight \in ParameterChoices(<<nout, nin>>) :
           made' = Append(made,
               Made("DenseLayer",
                    [NoArgs EXCEPT !.scope = scope, !.num_input_units = nin,
                                   !.num_output_units = nout, !.arity = 1,
                                   !.weight = weight],
                    DenseLayer(scope, nin, nout, weight)))
    /\ UNCHANGED <<mul_calls, compiler_vars, par_vars, sym_vars, pipe_vars, graph_vars, param_vars>>

NewMixingLayer ==
    /\ Len(made) < MaxLayersMade
    /\ \E scope \in Scopes \ {{}}, units \in UnitCounts, arity \in Arities :
         \E weight \in ParameterChoices(<<units, arity>>) :
           made' = Append(made,
               Made("MixingLayer",
                    [NoArgs EXCEPT !.scope = scope, !.num_input_units = units,
                                   !.arity = arity, !.weight = weight],
                    MixingLayer(scope, units, arity, weight)))
    /\ UNCHANGED <<mul_calls, compiler_vars, par_vars, sym_vars, pipe_vars, graph_vars, param_vars>>

\* registry.retrieve_rule(MULTIPLICATION, type(lhs), type(rhs))(lhs, rhs)
MultiplyLayers ==
    /\ Len(mul_calls) < MaxMulCalls
    /\ \E i, j \in DOMAIN made :
         /\ made[i].err = "none" /\ made[j].err = "none"
         /\ made[i].cls = made[j].cls
         /\ LET r == DEFAULT_OPERATOR_RULES(made[i].layer, made[j].layer)
            IN  mul_calls' = Append(mul_calls,
                    [lhs |-> made[i].layer, rhs |-> made[j].layer,
                     err |-> r.err, layers |-> r.layers])
    /\ UNCHANGED <<made, compiler_vars, par_vars, sym_vars, pipe_vars, graph_vars, param_vars>>

LayerNext ==
    \/ NewCategoricalLayer \/ NewGaussianLayer \/ NewHadamardLayer
    \/ NewKroneckerLayer \/ NewDenseLayer \/ NewMixingLayer
    \/ MultiplyLayers

(***************************************************************************)
(* SymbCircuit.layers_topological_ordering.  topological_ordering visits   *)
(* the graph depth first from the roots along incomings_fn and lists a     *)
(* node once all its incomings are listed; it yields no ordering when it   *)
(* meets a node that is still on the path it is following.  roots is the   *)
(* order in which the set of roots is iterated.                            *)
(***************************************************************************)
NoOrdering == [found |-> FALSE, ordering |-> <<>>, seen |-> {}]

RECURSIVE TopoVisit(_, _, _)
RECURSIVE TopoVisitAll(_, _, _, _)
TopoVisit(incomings, n, st) ==
    IF st.cyclic \/ n \in st.done THEN st
    ELSE IF n \in st.path THEN [st EXCEPT !.cyclic = TRUE]
    ELSE LET st1 == TopoVisitAll(incomings, DefaultGet(incomings, n), 1,
                        [st EXCEPT !.path = @ \cup {n}, !.seen = @ \cup {n}])
         IN  IF st1.cyclic THEN st1
             ELSE [st1 EXCEPT !.path = @ \ {n}, !.done = @ \cup {n},
                              !.ordering = Append(@, n)]

TopoVisitAll(incomings, nodes, k, st) ==
    IF k > Len(nodes) THEN st
    ELSE TopoVisitAll(incomings, nodes, k + 1, TopoVisit(incomings, nodes[k], st))

topological_ordering(roots, incomings) ==
    LET st == TopoVisitAll(incomings, roots, 1,
                  [ordering |-> <<>>, done |-> {}, path |-> {}, seen |-> {},
                   cyclic |-> FALSE])
    IN  IF st.cyclic THEN [NoOrdering EXCEPT !.seen = st.seen]
        ELSE [found |-> TRUE, ordering |-> st.ordering, seen |-> st.seen]

\* the orders in which set(self.output_layers) may be iterated
RootOrders(c) ==
    LET roots == {l.id : l \in Range(output_layers(c))}
    IN  {s \in [1 .. Cardinality(roots) -> roots] : Range(s) = roots}

\* the circuit after the call: output_layers read out_layers[layer] for every layer and
\* incomings_fn read in_layers[sl] for every layer visited, inserting the missing keys
TouchedBy(c, seen) ==
    [c EXCEPT
        !.out_layers = [x \in (DOMAIN c.out_layers) \cup {l.id : l \in Range(c.layers)} |->
                            OutGet(c.out_layers, x)],
        !.in_layers = [x \in (DOMAIN c.in_layers) \cup seen |-> DefaultGet(c.in_layers, x)]]

\* an ordering computed along the outgoing edges instead of the incoming ones
layers_topological_ordering_outgoings(c, roots) ==
    LET outgoings == [x \in DOMAIN c.out_layers |-> c.out_layers[x].items]
        r == topological_ordering(roots, outgoings)
    IN  IF ~r.found
        THEN [err |-> "ValueError", ordering |-> <<>>, operand |-> TouchedBy(c, r.seen)]
        ELSE [err |-> "none", ordering |-> r.ordering, operand |-> TouchedBy(c, r.seen)]

layers_topological_ordering(c, roots) ==
    LET r == topological_ordering(roots, c.in_layers)
    IN  IF ~r.found
        THEN [err |-> "ValueError", ordering |-> <<>>, operand |-> TouchedBy(c, r.seen)]
        ELSE [err |-> "none", ordering |-> r.ordering, operand |-> TouchedBy(c, r.seen)]

(***************************************************************************)
(* A circuit assembled by hand: SymbCircuit(scope, layers, in_layers,      *)
(* out_layers) on a list of layers and two adjacency tables filled one     *)
(* edge at a time.                                                         *)
(***************************************************************************)
NumEdges(c) ==
    LET ids == {l.id : l \in Range(c.layers)}
    IN  Cardinality({e \in ids \X ids : e[1] \in Range(DefaultGet(c.in_layers, e[2]))})

TopoAddLayer ==
    /\ sym_pc \in {"rg", "manual"}
    /\ rg_nodes = <<>>
    /\ Len(sc.layers) < MaxTopoLayers
    /\ sc' = SymbCircuit(1, Variables,
                 Append(sc.layers,
                        SymbLayer(Len(sc.layers) + 1, "SymbSumLayer", Variables, 1, 1,
                                  NoLayerOperation)),
                 sc.in_layers, sc.out_layers, NoCircuitOperation)
    /\ sym_pc' = "manual"
    /\ UNCHANGED <<rg_nodes, int_sc, int_call, compiler_vars, par_vars, pipe_vars,
                   graph_vars, layer_vars, param_vars>>

\* in_layers[dst].append(src); out_layers[src].append(dst)
TopoAddEdge ==
    /\ sym_pc = "manual"
    /\ NumEdges(sc) < MaxTopoEdges
    /\ \E src, dst \in {l.id : l \in Range(sc.layers)} :
         /\ src \notin Range(DefaultGet(sc.in_layers, dst))
         /\ sc' = [sc EXCEPT
                      !.in_layers = DictSet(@, dst, Append(DefaultGet(@, dst), src)),
                      !.out_layers = DictSet(@, src,
                                         ListValue(Append(OutGet(@, src).items, dst)))]
    /\ UNCHANGED <<rg_nodes, sym_pc, int_sc, int_call, compiler_vars, par_vars, pipe_vars,
                   graph_vars, layer_vars, param_vars>>

LayersTopologicalOrdering ==
    /\ sym_pc \in {"built", "manual"}
    /\ \E roots \in RootOrders(sc) :
         LET r == layers_topological_ordering(sc, roots)
         IN  /\ topo_call' = [err |-> r.err, ordering |-> r.ordering, operand |-> sc]
             /\ sc' = r.operand
    /\ sym_pc' = "ordered"
    /\ UNCHANGED <<rg_nodes, int_sc, int_call, diff_call, rg_call, compiler_vars, par_vars,
                   pipe_vars, layer_vars, param_vars>>

TopoNext ==
    \/ AddInputRegion \/ AddPartition \/ AddInnerRegion \/ FromRegionGraph
    \/ TopoAddLayer \/ TopoAddEdge \/ LayersTopologicalOrdering

(***************************************************************************)
(* Parameter operators (params.py).  An operand is a parameter of a given  *)
(* shape; constructing an operator yields its shape, or the error of the   *)
(* assertion that rejected it.  axis counts from 0; a negative axis counts *)
(* from the end.                                                           *)
(***************************************************************************)
Dims == 1 .. MaxDim
Shapes == UNION {[1 .. n -> Dims] : n \in 0 .. MaxRank}
Axes == (0 - (MaxRank + 1)) .. MaxRank

RejectedParameter(op) == [op |-> op, shape |-> <<>>, err |-> "AssertionError"]

\* axis = axis if axis >= 0 else axis + len(shape)
NormalizeAxis(axis, shape) == IF axis >= 0 THEN axis ELSE axis + Len(shape)

\* shape[:axis] and shape[axis:] for 0 <= axis <= len(shape)
Prefix(shape, axis) == SubSeq(shape, 1, axis)
Suffix(shape, axis) == SubSeq(shape, axis + 1, Len(shape))

StackOpParameter(opds, axis_arg) ==
    IF Cardinality({opds[i].shape : i \in DOMAIN opds}) # 1
    THEN RejectedParameter("Stack")
    ELSE LET axis == NormalizeAxis(axis_arg, opds[1].shape)
         IN  IF ~(0 <= axis /\ axis < Len(opds[1].shape))
             THEN RejectedParameter("Stack")
             ELSE [op |-> "Stack",
                   shape |-> Prefix(opds[1].shape, axis) \o <<Len(opds)>>
                                \o Prefix(opds[1].shape, axis),
                   err |-> "none"]

HadamardParameter(opd1, opd2) ==
    IF opd1.shape # opd2.shape THEN RejectedParameter("Hadamard")
    ELSE [op |-> "Hadamard", shape |-> opd1.shape, err |-> "none"]

OuterProductParameter(opd1, opd2, axis_arg) ==
    IF Len(opd1.shape) # Len(opd2.shape) THEN RejectedParameter("OuterProduct")
    ELSE LET axis == NormalizeAxis(axis_arg, opd1.shape)
         IN  IF ~(0 <= axis /\ axis < Len(opd1.shape))
             THEN RejectedParameter("OuterProduct")
             ELSE IF Prefix(opd1.shape, axis) # Prefix(opd2.shape, axis)
             THEN RejectedParameter("OuterProduct")
             ELSE IF Suffix(opd1.shape, axis + 1) # Suffix(opd2.shape, axis + 1)
             THEN RejectedParameter("OuterProduct")
             ELSE LET cross_dim == opd1.shape[axis + 1] * opd2.shape[axis + 1]
                  IN  [op |-> "OuterProduct",
                       shape |-> Prefix(opd1.shape, axis) \o <<cross_dim>>
                                    \o Suffix(opd1.shape, axis + 1),
                       err |-> "none"]

\* Exp, Log
EntrywiseOpParameter(op, opd) == [op |-> op, shape |-> opd.shape, err |-> "none"]

\* a reduction that keeps the axis it reduces
ReduceOpParameterKeepAxis(op, opd, axis_arg) ==
    LET axis == NormalizeAxis(axis_arg, opd.shape)
    IN  IF ~(0 <= axis /\ axis < Len(opd.shape)) THEN RejectedParameter(op)
        ELSE [op |-> op, shape |-> opd.shape, err |-> "none"]

\* ReduceSum, ReduceProduct, ReduceLSE
ReduceOpParameter(op, opd, axis_arg) ==
    LET axis == NormalizeAxis(axis_arg, opd.shape)
    IN  IF ~(0 <= axis /\ axis < Len(opd.shape)) THEN RejectedParameter(op)
        ELSE [op |-> op,
              shape |-> Prefix(opd.shape, axis) \o Suffix(opd.shape, axis + 1),
              err |-> "none"]

\* Softmax, LogSoftmax
EntrywiseReduceOpParameter(op, opd, axis_arg) ==
    LET axis == NormalizeAxis(axis_arg, opd.shape)
    IN  IF ~(0 <= axis /\ axis < Len(opd.shape)) THEN RejectedParameter(op)
        ELSE [op |-> op, shape |-> opd.shape, err |-> "none"]

(***************************************************************************)
(* A parameter operator is constructed over operands of any shapes.        *)
(* Constructions are independent of each other: a behaviour makes one.     *)
(***************************************************************************)
ParamCall(cls, shapes, axis, r) ==
    [cls |-> cls, opds |-> shapes, axis |-> axis, err |-> r.err, shape |-> r.shape]

NoParamCall == [cls |-> "None", opds |-> <<>>, axis |-> 0, err |-> "none", shape |-> <<>>]

NewStackParameter ==
    /\ param_call = NoParamCall
    /\ \E n \in 0 .. MaxOperands, axis \in Axes :
         \E shapes \in [1 .. n -> Shapes] :
           param_call' = ParamCall("Stack", shapes, axis,
               StackOpParameter([i \in 1 .. n |-> Parameter(shapes[i])], axis))
    /\ UNCHANGED <<compiler_vars, par_vars, sym_vars, pipe_vars, graph_vars, layer_vars>>

NewHadamardParameter ==
    /\ param_call = NoParamCall
    /\ \E a \in Shapes, b \in Shapes :
         param_call' = ParamCall("Hadamard", <<a, b>>, 0,
             HadamardParameter(Parameter(a), Parameter(b)))
    /\ UNCHANGED <<compiler_vars, par_vars, sym_vars, pipe_vars, graph_vars, layer_vars>>

NewKroneckerParameter ==
    /\ param_call = NoParamCall
    /\ \E a \in Shapes, b \in Shapes :
         param_call' = ParamCall("Kronecker", <<a, b>>, 0,
             KroneckerParameter(Parameter(a), Parameter(b)))
    /\ UNCHANGED <<compiler_vars, par_vars, sym_vars, pipe_vars, graph_vars, layer_vars>>

NewOuterProductParameter ==
    /\ param_call = NoParamCall
    /\ \E a \in Shapes, b \in Shapes, axis \in Axes :
         param_call' = ParamCall("OuterProduct", <<a, b>>, axis,
             OuterProductParameter(Parameter(a), Parameter(b), axis))
    /\ UNCHANGED <<compiler_vars, par_vars, sym_vars, pipe_vars, graph_vars, layer_vars>>

NewEntrywiseParameter ==
    /\ param_call = NoParamCall
    /\ \E cls \in {"Exp", "Log"}, a \in Shapes :
         param_call' = ParamCall(cls, <<a>>, 0, EntrywiseOpParameter(cls, Parameter(a)))
    /\ UNCHANGED <<compiler_vars, par_vars, sym_vars, pipe_vars, graph_vars, layer_vars>>

NewReduceParameter ==
    /\ param_call = NoParamCall
    /\ \E cls \in {"ReduceSum", "ReduceProduct", "ReduceLSE"}, a \in Shapes, axis \in Axes :
         param_call' = ParamCall(cls, <<a>>, axis, ReduceOpParameter(cls, Parameter(a), axis))
    /\ UNCHANGED <<compiler_vars, par_vars, sym_vars, pipe_vars, graph_vars, layer_vars>>

NewEntrywiseReduceParameter ==
    /\ param_call = NoParamCall
    /\ \E cls \in {"Softmax", "LogSoftmax"}, a \in Shapes, axis \in Axes :
         param_call' = ParamCall(cls, <<a>>, axis,
             EntrywiseReduceOpParameter(cls, Parameter(a), axis))
    /\ UNCHANGED <<compiler_vars, par_vars, sym_vars, pipe_vars, graph_vars, layer_vars>>

ParamNext ==
    \/ NewStackParameter \/ NewHadamardParameter \/ NewKroneckerParameter
    \/ NewOuterProductParameter \/ NewEntrywiseParameter \/ NewReduceParameter
    \/ NewEntrywiseReduceParameter

ParamInit == param_call = NoParamCall

(***************************************************************************)
(* Pipelines of circuits (symb_circuit.py 211-217).  A circuit refers to   *)
(* the circuits it was derived from through operation.operands; `pipe'     *)
(* holds the circuits made so far and a circuit is referred to by its id.  *)
(***************************************************************************)
CircuitOf(circuits, id) == CHOOSE c \in Range(circuits) : c.id = id

\* incomings_fn: () if sc.operation is None else sc.operation.operands
OperandsOf(circuits) ==
    [id \in {c.id : c \in Range(circuits)} |-> CircuitOf(circuits, id).operation.operands]

\* an ordering that holds the roots alone, without the circuits they derive from
pipeline_roots_ordering(circuits, roots) ==
    [err |-> "none", ordering |-> roots]

pipeline_topological_ordering(circuits, roots) ==
    LET r == topological_ordering(roots, OperandsOf(circuits))
    IN  IF ~r.found
        THEN [err |-> "ValueError", ordering |-> <<>>]
        ELSE [err |-> "none", ordering |-> r.ordering]

\* the orders in which a set of circuits given as roots may be iterated
RootSequences(ids) ==
    {s \in UNION {[1 .. n -> ids] : n \in 0 .. Cardinality(ids)} :
        \A i, j \in DOMAIN s : i # j => s[i] # s[j]}

\* TorchCompiler.compile as a pipeline: the circuits of the ordering that the compiler
\* does not hold yet are compiled one after the other and registered
RECURSIVE CompileCircuits(_, _, _, _)
CompileCircuits(circuits, ordering, k, a) ==
    IF k > Len(ordering) THEN a
    ELSE IF ordering[k] \in Range(a.compiles)
    THEN CompileCircuits(circuits, ordering, k + 1, a)
    ELSE LET r == compile(CircuitOf(circuits, ordering[k]), a.state, a.tensors, a.returned)
         IN  CompileCircuits(circuits, ordering, k + 1,
                [state |-> r.state, tensors |-> r.tensors, returned |-> r.returned,
                 compiles |-> Append(a.compiles, ordering[k])])

compile_pipeline(circuits, id, a) ==
    LET o == pipeline_topological_ordering(circuits, <<id>>)
    IN  IF o.err # "none" THEN [err |-> o.err, compiler |-> a]
        ELSE [err |-> "none", compiler |-> CompileCircuits(circuits, o.ordering, 1, a)]

\* get_compiled_circuit(sc) finds a circuit the compiler registered
has_compiled_circuit(compiles, id) == id \in Range(compiles)

\* a behaviour ends with its call of pipeline_topological_ordering
NotOrdered == pipe_call.op # "pipeline_topological_ordering"

\* a circuit over one variable, built from a region graph of one leaf region
NewCircuit ==
    /\ NotOrdered
    /\ Len(pipe) < MaxCircuits
    /\ pipe' = Append(pipe,
          from_region_graph(<<[kind |-> "region", scope |-> {0}, inputs |-> <<>>]>>,
              [num_channels |-> 1, num_input_units |-> 1, num_sum_units |-> 1,
               num_classes |-> 1, input_cls |-> "CategoricalLayer",
               first_id |-> Cardinality(PipeLayers), circuit_id |-> Len(pipe) + 1]))
    /\ pipe_call' = [NoPipeCall EXCEPT !.op = "build", !.args = <<Len(pipe) + 1>>]
    /\ UNCHANGED <<sym_vars, pipe_compiles, compiler_vars, par_vars, graph_vars,
                   layer_vars, param_vars>>

\* SF.integrate(c) over the whole scope: the derived circuit records c as its operand
IntegrateCircuit ==
    /\ NotOrdered
    /\ Len(pipe) < MaxCircuits
    /\ \E i \in DOMAIN pipe :
         LET r == integrate(pipe[i], NoScope, {"CategoricalLayer", BaseInputClass},
                            [first_id |-> Cardinality(PipeLayers),
                             circuit_id |-> Len(pipe) + 1])
             operands == [pipe EXCEPT ![i] = r.operand]
         IN  /\ pipe' = IF r.err = "none" THEN Append(operands, r.circuit) ELSE operands
             /\ pipe_call' = [NoPipeCall EXCEPT !.op = "integrate",
                                !.args = <<pipe[i].id>>, !.err = r.err,
                                !.result = r.circuit.id]
    /\ UNCHANGED <<sym_vars, pipe_compiles, compiler_vars, par_vars, graph_vars,
                   layer_vars, param_vars>>

\* sc.operation = SymbCircuitOperation(operator, operands): the attribute of a circuit
\* is assigned a record naming up to MaxOperands circuits of the pipeline, before the
\* circuit is compiled
SetOperation ==
    /\ NotOrdered
    /\ \E i \in DOMAIN pipe :
       \E n \in 1 .. MaxOperands :
       \E operands \in [1 .. n -> PipeCircuitIds] :
         /\ ~has_compiled_circuit(pipe_compiles, pipe[i].id)
         /\ pipe[i].operation.operands # operands
         /\ pipe' = [pipe EXCEPT ![i].operation =
                        [operator |-> "MULTIPLICATION", operands |-> operands,
                         scope |-> {}]]
         /\ pipe_call' = [NoPipeCall EXCEPT !.op = "operation", !.args = <<pipe[i].id>>]
    /\ UNCHANGED <<sym_vars, pipe_compiles, compiler_vars, par_vars, graph_vars,
                   layer_vars, param_vars>>

PipelineTopologicalOrdering ==
    /\ NotOrdered
    /\ pipe # <<>>
    /\ \E roots \in RootSequences(PipeCircuitIds) :
         LET r == pipeline_topological_ordering(pipe, roots)
         IN  pipe_call' = [NoPipeCall EXCEPT !.op = "pipeline_topological_ordering",
                              !.args = roots, !.err = r.err, !.result = r.ordering]
    /\ UNCHANGED <<sym_vars, pipe, pipe_compiles, compiler_vars, par_vars, graph_vars,
                   layer_vars, param_vars>>

\* compiler.compile(sc)
CompilePipeline ==
    /\ NotOrdered
    /\ \E i \in DOMAIN pipe :
         LET r == compile_pipeline(pipe, pipe[i].id,
                     [state |-> compiled_parameters, tensors |-> tensors,
                      returned |-> returned, compiles |-> pipe_compiles])
         IN  /\ compiled_parameters' = r.compiler.state
             /\ tensors' = r.compiler.tensors
             /\ returned' = r.compiler.returned
             /\ pipe_compiles' = r.compiler.compiles
             /\ pipe_call' = [NoPipeCall EXCEPT !.op = "compile", !.args = <<pipe[i].id>>,
                                !.err = r.err, !.result = pipe[i].id,
                                !.first = Len(pipe_compiles) + 1]
    /\ UNCHANGED <<sym_vars, pipe, par_vars, graph_vars, layer_vars, param_vars>>

OrderNext ==
    \/ NewCircuit \/ IntegrateCircuit \/ SetOperation
    \/ PipelineTopologicalOrdering \/ CompilePipeline

NoDiffCall == [err |-> "none", circuit |-> NoCircuit, operand |-> NoCircuit]

NoTopoCall == [err |-> "none", ordering |-> <<>>, operand |-> NoCircuit]

NoRgCall == [num_sum_units |-> 0, num_classes |-> 0, input_cls |-> "None"]

GraphInit ==
    /\ diff_call = NoDiffCall
    /\ topo_call = NoTopoCall
    /\ rg_call = NoRgCall

LayerInit ==
    /\ made = <<>>
    /\ mul_calls = <<>>

(***************************************************************************)
(* Specifications.                                                         *)
(***************************************************************************)
Init ==
    /\ CompilerInit /\ ParIdle /\ SymInit /\ PipeInit /\ GraphInit /\ LayerInit
    /\ ParamInit

Next == CompileTensorParameter \/ CompileConstantParameter

\* one compilation, one rule call at a time
Spec == Init /\ [][Next]_vars

\* two compilations interleaving inside compile_tensor_parameter
SpecPar == Init /\ [][ParNext]_vars

\* region graph -> from_region_graph -> integrate or differentiate
SymSpec == Init /\ [][SymNext]_vars

\* region graph -> p, q -> multiply / integrate / compile through one compiler
PipeSpec == Init /\ [][PipeNext]_vars

\* layers are constructed and multiplied
LayerSpec == Init /\ [][LayerNext]_vars

\* a circuit from a region graph or assembled by hand -> layers_topological_ordering
TopoSpec == Init /\ [][TopoNext]_vars

\* parameter operators are constructed
ParamSpec == Init /\ [][ParamNext]_vars

\* circuits are built and derived -> pipeline_topological_ordering / compile
OrderSpec == Init /\ [][OrderNext]_vars



(***************************************************************************)
(* Properties of the compiled-parameter cache.                             *)
(***************************************************************************)
Materializations(p) == {i \in 1 .. Len(tensors) : tensors[i].sym = p}

FirstCall(p) == CHOOSE k \in 1 .. Len(returned) :
    /\ returned[k].p = p
    /\ \A j \in 1 .. (k - 1) : returned[j].p # p

\* C1: through one compiler state every symbolic tensor parameter is materialized
\* at most once: the first call for p constructs one TorchTensorParameter and
\* registers it, every later call for p constructs none and returns a pointer to
\* the first call's tensor with the fold index the state holds for p.
C1_MaterializedAtMostOnce ==
    /\ \A p \in TensorParameters : Cardinality(Materializations(p)) <= 1
    /\ \A k \in 1 .. Len(returned) :
         LET p == returned[k].p
             r == returned[k].result
         IN  p \in TensorParameters =>
               /\ has_compiled_parameter(compiled_parameters, p)
               /\ IF k = FirstCall(p)
                  THEN /\ r.kind = "tensor"
                       /\ tensors[r.ref].sym = p
                       /\ retrieve_compiled_parameter(compiled_parameters, p).param = r.ref
                  ELSE /\ r.kind = "pointer"
                       /\ r.ref = returned[FirstCall(p)].result.ref
                       /\ r.fold_idx =
                            retrieve_compiled_parameter(compiled_parameters, p).fold_idx

C1_Witness ==
    \E j, k \in 1 .. Len(returned) :
        /\ j < k
        /\ returned[j].p = returned[k].p
        /\ returned[k].p \in TensorParameters
        /\ returned[j].result.kind = "tensor"
        /\ returned[k].result.kind = "pointer"
        /\ returned[k].result.fold_idx = MaxFoldIdx

\* C3: whatever the interleaving of two compilations that share the compiler
\* state, no symbolic tensor parameter gets two materializations (the test and
\* the registration act as one atomic step).
C3_NoDoubleMaterialization ==
    \A p \in TensorParameters : Cardinality(Materializations(p)) <= 1

\* C4: the compiled-parameter cache is append-only: an entry, once registered,
\* stays and keeps mapping to the same compiled parameter and fold index.
C4_AppendOnly ==
    [][\A p \in DOMAIN compiled_parameters :
          /\ p \in DOMAIN compiled_parameters'
          /\ compiled_parameters'[p] = compiled_parameters[p]]_vars

C4_Witness ==
    /\ \E p \in TensorParameters : has_compiled_parameter(compiled_parameters, p)
    /\ \E p \in ConstantParameters : has_compiled_parameter(compiled_parameters, p)
    /\ \E k \in 1 .. Len(returned) :
          /\ returned[k].p \in ConstantParameters
          /\ returned[k].result.kind = "pointer"


(***************************************************************************)
(* Properties of symbolic circuits and of integrate.                       *)
(***************************************************************************)
\* Decomposability and smoothness as the structural definitions state them
Decomposable(c) ==
    \A l \in Range(c.layers) :
        IsProdLayer(l) =>
            LET ins == DefaultGet(c.in_layers, l.id)
            IN  \A i, j \in DOMAIN ins :
                    i # j => LayerById(c, ins[i]).scope \cap LayerById(c, ins[j]).scope = {}

Smooth(c) ==
    \A l \in Range(c.layers) :
        IsSumLayer(l) =>
            LET ins == DefaultGet(c.in_layers, l.id)
            IN  \A i \in DOMAIN ins : LayerById(c, ins[i]).scope = l.scope

\* A smooth and decomposable region graph: every partition splits its region into
\* pairwise disjoint sub-regions that cover it.
SmoothDecomposableRegionGraph(nodes) ==
    \A k \in DOMAIN nodes :
        LET n == nodes[k]
        IN  IF n.kind = "partition"
            THEN /\ \A i, j \in DOMAIN n.inputs :
                        i # j => nodes[n.inputs[i]].scope \cap nodes[n.inputs[j]].scope = {}
                 /\ UnionOf({nodes[n.inputs[i]].scope : i \in DOMAIN n.inputs}) = n.scope
            ELSE \A i \in DOMAIN n.inputs : nodes[n.inputs[i]].scope = n.scope

Built == sym_pc \in {"built", "integrated"}
Integrated == sym_pc = "integrated"
Returned == Integrated /\ int_call.err = "none"
IntegrationScope ==
    IF int_call.scope_arg.given THEN int_call.scope_arg.vars ELSE int_call.operand.scope
LayerIds(c) == {l.id : l \in Range(c.layers)}
\* the registry holds an integration rule for every input layer of c
RegistryCovers(registry, c) ==
    \A l \in Range(c.layers) :
        IsInputLayer(l) => (has_rule(registry, l.cls) \/ has_rule(registry, BaseInputClass))

\* C5: is_decomposable is true if and only if, in every product layer, every two
\* distinct direct inputs have disjoint scopes.
C5_IsDecomposableIff == Built => (is_decomposable(sc) <=> Decomposable(sc))

\* C6: a circuit built by from_region_graph from a smooth and decomposable region
\* graph has is_smooth and is_decomposable true.
C6_RegionGraphCircuitSmoothDecomposable ==
    (Built /\ SmoothDecomposableRegionGraph(rg_nodes)) =>
        (is_smooth(sc) /\ is_decomposable(sc))

\* The symbolic tensor parameters that originate from p or q
PipeOperandParameters ==
    {x \in Range(CircuitParameters(pipe[1])) \cup Range(CircuitParameters(pipe[2])) :
        x.type = "TensorParameter"}

\* multiply(p, q) of two circuits over one smooth and decomposable region graph
\* returns the product circuit
PipeMultiplyYieldsProduct ==
    (pipe_call.op = "multiply" /\ pipe_call.args = <<1, 2>>)
        => (pipe_call.err = "none" /\ pipe_call.result \in PipeCircuitIds)

\* once p and q have been compiled, directly or through the circuits derived from
\* them, each of their tensor parameters has exactly one materialization
PipeOperandsMaterializedOnce ==
    /\ \A x \in PipeOperandParameters : Cardinality(Materializations(x)) <= 1
    /\ \A i \in {1, 2} :
         pipe[i].id \in Range(pipe_compiles) =>
            \A x \in Range(CircuitParameters(pipe[i])) :
                Cardinality(Materializations(x)) = 1

\* compiling a circuit again returns only pointers
PipeRecompileReturnsPointers ==
    (/\ pipe_call.op = "compile"
     /\ \E k \in 1 .. (Len(pipe_compiles) - 1) : pipe_compiles[k] = pipe_call.result)
        => \A k \in pipe_call.first .. Len(returned) :
              /\ returned[k].result.kind = "pointer"
              /\ tensors[returned[k].result.ref].sym = returned[k].p

\* C2: when p, q, multiply(p, q) and integrate(multiply(p, q)) are compiled through
\* one compiler state, the product and its integral exist, every tensor parameter
\* that originates from p or q ends with exactly one materialization, and compiling
\* p again returns only pointers to those materializations.
C2_PipelineMaterializesOnce ==
    (sym_pc = "pipeline" /\ SmoothDecomposableRegionGraph(rg_nodes)) =>
        /\ PipeMultiplyYieldsProduct
        /\ PipeOperandsMaterializedOnce
        /\ PipeRecompileReturnsPointers

\* C7: integrate(sc) without a scope argument on a smooth and decomposable circuit
\* returns a circuit with empty scope that is still smooth and decomposable.
C7_IntegrateEmptyScope ==
    (Integrated /\ ~int_call.scope_arg.given
        /\ RegistryCovers(int_call.registry, int_call.operand)
        /\ Smooth(int_call.operand) /\ Decomposable(int_call.operand)) =>
        /\ int_call.err = "none"
        /\ int_sc.scope = {}
        /\ is_smooth(int_sc)
        /\ is_decomposable(int_sc)

C9_IntegratePreconditions ==
    Integrated =>
        LET op == int_call.operand
        IN  /\ (~Smooth(op) \/ ~Decomposable(op)) =>
                 /\ int_call.err = "StructuralPropertyError"
                 /\ int_sc = NoCircuit
                 /\ int_call.rules_applied = 0
            /\ (int_call.scope_arg.given /\ ~(int_call.scope_arg.vars \subseteq op.scope)) =>
                 /\ int_call.err \in {"StructuralPropertyError", "ValueError"}
                 /\ int_sc = NoCircuit
                 /\ int_call.rules_applied = 0

C9_Witness ==
    /\ Integrated
    /\ int_call.err = "ValueError"
    /\ int_call.scope_arg.given
    /\ ~(int_call.scope_arg.vars \subseteq int_call.operand.scope)
    /\ Len(int_call.operand.layers) >= 4

\* C10: integrate never mutates its operand (layers, in_layers, out_layers, scope
\* and operation are as before the call, whether it returns or raises), and the
\* result's in_layers / out_layers are fresh tables whose keys and values are only
\* layers of the new circuit.
C10_IntegrateFrame ==
    Integrated =>
        /\ sc = int_call.operand
        /\ Returned =>
             /\ LayerIds(int_sc) \cap LayerIds(sc) = {}
             /\ DOMAIN int_sc.in_layers \subseteq LayerIds(int_sc)
             /\ DOMAIN int_sc.out_layers \subseteq LayerIds(int_sc)
             /\ \A x \in DOMAIN int_sc.in_layers :
                    Range(int_sc.in_layers[x]) \subseteq LayerIds(int_sc)
             /\ \A x \in DOMAIN int_sc.out_layers :
                    Range(int_sc.out_layers[x].items) \subseteq LayerIds(int_sc)

C10_Witness ==
    /\ Returned
    /\ sc.in_layers # <<>>
    /\ int_sc.in_layers # <<>>
    /\ int_sc.out_layers # <<>>
    /\ \E l \in Range(sc.layers) : IsProdLayer(l)

(***************************************************************************)
(* Compatibility.                                                          *)
(***************************************************************************)
\* the scopes of the direct inputs of a layer
InputScopes(c, l) ==
    {LayerById(c, x).scope : x \in Range(DefaultGet(c.in_layers, l.id))}

\* Structured decomposability as the structural definition states it: smooth,
\* decomposable, and product layers over the same scope split it the same way.
StructuredDecomposable(c) ==
    /\ Smooth(c)
    /\ Decomposable(c)
    /\ \A a, b \in Range(c.layers) :
          (IsProdLayer(a) /\ IsProdLayer(b) /\ a.scope = b.scope)
              => InputScopes(c, a) = InputScopes(c, b)

\* every direct input of every product layer is over a single variable
FullyFactorized(c) ==
    \A l \in Range(c.layers) :
        IsProdLayer(l) => \A sv \in InputScopes(c, l) : Cardinality(sv) = 1

\* C11: multiply(lhs, rhs) raises StructuralPropertyError exactly when
\* lhs.is_compatible(rhs) is false, and is_compatible is true for two circuits
\* built from the same smooth and decomposable region graph, so that they can be
\* multiplied.
C11_MultiplyGatedByCompatibility ==
    sym_pc = "pipeline" =>
        /\ pipe_call.op = "multiply" =>
              ((pipe_call.err = "StructuralPropertyError")
                  <=> ~is_compatible(pipe[pipe_call.args[1]], pipe[pipe_call.args[2]]))
        /\ SmoothDecomposableRegionGraph(rg_nodes) => is_compatible(pipe[1], pipe[2])

\* C12: is_structured_decomposable equals is_compatible(self), and it is true for
\* every smooth and decomposable circuit whose product layers over the same scope
\* partition it identically, and for the result of integrate on such a circuit.
C12_StructuredDecomposable ==
    Built =>
        /\ is_structured_decomposable(sc) <=> is_compatible(sc, sc)
        /\ StructuredDecomposable(sc) => is_structured_decomposable(sc)
        /\ (Returned /\ StructuredDecomposable(int_call.operand))
              => is_structured_decomposable(int_sc)

\* C13: is_omni_compatible is true exactly when the circuit is smooth, decomposable
\* and every direct input of every product layer has a single-variable scope.
C13_OmniCompatibleIff ==
    Built =>
        (is_omni_compatible(sc) <=> (Smooth(sc) /\ Decomposable(sc) /\ FullyFactorized(sc)))

\* the sum of the sizes of the scopes of the inner layers
RECURSIVE ScopeSizes(_, _)
ScopeSizes(layers, k) ==
    IF k > Len(layers) THEN 0
    ELSE Cardinality(layers[k].scope) + ScopeSizes(layers, k + 1)

\* C17: differentiate on a smooth and decomposable circuit with I input layers and
\* K inner layers whose scopes have total size S returns a circuit with 2 I input
\* layers and S + K inner layers; on a circuit that is not smooth or not
\* decomposable it raises StructuralPropertyError.
C17_DifferentiateCounts ==
    sym_pc = "differentiated" =>
        LET op == diff_call.operand
            inner == inner_layers(op)
        IN  /\ (~Smooth(op) \/ ~Decomposable(op))
                  => diff_call.err = "StructuralPropertyError"
            /\ (Smooth(op) /\ Decomposable(op)) =>
                  /\ diff_call.err = "none"
                  /\ Len(input_layers(diff_call.circuit)) = 2 * Len(input_layers(op))
                  /\ Len(inner_layers(diff_call.circuit)) = ScopeSizes(inner, 1) + Len(inner)

(***************************************************************************)
(* Layer constructors and multiplication rules.                            *)
(***************************************************************************)
MulCallsOf(classes) == {k \in DOMAIN mul_calls : mul_calls[k].lhs.cls \in classes}

\* C14: the multiplication rule for two Categorical input layers, and the one for two
\* Gaussian input layers, yields an input layer with lhs.num_output_units times
\* rhs.num_output_units output units, the operands' common number of channels and
\* the scope lhs.scope | rhs.scope, for every pair of operand unit counts.
C14_InputProductUnits ==
    \A k \in MulCallsOf({"CategoricalLayer", "GaussianLayer"}) :
        LET c == mul_calls[k]
        IN  (NumChannels(c.lhs) = NumChannels(c.rhs) /\ c.lhs.scope = c.rhs.scope) =>
                /\ c.err = "none"
                /\ c.layers[1].cls = c.lhs.cls
                /\ c.layers[1].num_output_units
                      = c.lhs.num_output_units * c.rhs.num_output_units
                /\ NumChannels(c.layers[1]) = NumChannels(c.lhs)
                /\ c.layers[1].scope = c.lhs.scope \cup c.rhs.scope

\* C15: the multiplication rules for sum layers build a layer that passes its own
\* weight-shape validation.  Dense x Dense: num_input_units in1 in2, num_output_units
\* out1 out2, weight Kronecker(weight1, weight2) of shape (out1 out2, in1 in2).
\* Mixing x Mixing: units in1 in2, arity arity1 arity2, weight Kronecker(weight1,
\* weight2) of shape (in1 in2, arity1 arity2).
C15_SumProductShapes ==
    /\ \A k \in MulCallsOf({"DenseLayer"}) :
          LET c == mul_calls[k]
              in12 == c.lhs.num_input_units * c.rhs.num_input_units
              out12 == c.lhs.num_output_units * c.rhs.num_output_units
          IN  /\ c.err = "none"
              /\ c.layers[1].cls = "DenseLayer"
              /\ c.layers[1].num_input_units = in12
              /\ c.layers[1].num_output_units = out12
              /\ c.layers[1].params.weight.op = "Kronecker"
              /\ c.layers[1].params.weight.shape = <<out12, in12>>
    /\ \A k \in MulCallsOf({"MixingLayer"}) :
          LET c == mul_calls[k]
              in12 == c.lhs.num_input_units * c.rhs.num_input_units
              ar12 == c.lhs.arity * c.rhs.arity
          IN  /\ c.err = "none"
              /\ c.layers[1].cls = "MixingLayer"
              /\ c.layers[1].num_input_units = in12
              /\ c.layers[1].num_output_units = in12
              /\ c.layers[1].arity = ar12
              /\ c.layers[1].params.weight.op = "Kronecker"
              /\ c.layers[1].params.weight.shape = <<in12, ar12>>

C15_Witness ==
    /\ \E k \in MulCallsOf({"DenseLayer"}) :
          /\ mul_calls[k].lhs.num_output_units = 2 /\ mul_calls[k].lhs.num_input_units = 1
          /\ mul_calls[k].layers[1].params.weight.shape = <<4, 1>>
    /\ \E k \in MulCallsOf({"MixingLayer"}) :
          /\ mul_calls[k].lhs.num_input_units = 2 /\ mul_calls[k].lhs.arity = 2
          /\ mul_calls[k].layers[1].params.weight.shape = <<4, 4>>

\* the unit counts of a layer that the order of the units does not change
Dimensions(l) == <<l.scope, l.num_input_units, l.num_output_units, l.arity>>

\* C16: multiplication is commutative up to unit ordering: rule(a, b) and rule(b, a)
\* produce layers with the same scope, num_input_units, num_output_units and arity.
C16_MultiplicationCommutes ==
    \A k, m \in DOMAIN mul_calls :
        (mul_calls[k].lhs = mul_calls[m].rhs /\ mul_calls[k].rhs = mul_calls[m].lhs) =>
            /\ mul_calls[k].err = mul_calls[m].err
            /\ Len(mul_calls[k].layers) = Len(mul_calls[m].layers)
            /\ \A i \in DOMAIN mul_calls[k].layers :
                  Dimensions(mul_calls[k].layers[i]) = Dimensions(mul_calls[m].layers[i])

\* C18: layer constructors reject invalid hyperparameters and parameter shapes.
\* Categorical: rejected when the scope size is not 1, when num_categories < 2, or when
\* both logits and probs are given.  Dense: rejected unless the weight has shape
\* (num_output_units, num_input_units).  Mixing: num_output_units = num_input_units
\* always, rejected unless the weight has shape (units, arity).  Hadamard: rejected
\* when arity < 2.  A rejected construction raises and yields no layer.
C18_ConstructorsValidate ==
    \A k \in DOMAIN made :
        LET m == made[k]
            a == m.args
        IN  /\ m.cls = "CategoricalLayer" =>
                  ((\/ Cardinality(a.scope) # 1
                    \/ a.num_categories < 2
                    \/ (a.logits # NoParameter /\ a.probs # NoParameter))
                       => m.err # "none")
            /\ m.cls = "DenseLayer" =>
                  /\ (m.err = "none") <=>
                        (\/ a.weight = NoParameter
                         \/ a.weight.shape = <<a.num_output_units, a.num_input_units>>)
                  /\ m.err = "none" =>
                        m.layer.params.weight.shape
                            = <<m.layer.num_output_units, m.layer.num_input_units>>
            /\ m.cls = "MixingLayer" =>
                  /\ (m.err = "none") <=>
                        (\/ a.weight = NoParameter
                         \/ a.weight.shape = <<a.num_input_units, a.arity>>)
                  /\ m.err = "none" =>
                        /\ m.layer.num_output_units = m.layer.num_input_units
                        /\ m.layer.params.weight.shape = <<m.layer.num_input_units, m.layer.arity>>
            /\ m.cls = "HadamardLayer" => (a.arity < 2 => m.err # "none")
            /\ m.err # "none" => m.layer = NoLayer

C18_Witness ==
    /\ \E k \in DOMAIN made :
          made[k].cls = "HadamardLayer" /\ made[k].args.arity = 1 /\ made[k].err = "ValueError"
    /\ \E k \in DOMAIN made :
          /\ made[k].cls = "DenseLayer" /\ made[k].err = "ValueError"
          /\ made[k].args.weight.shape = <<3, 1>>
          /\ made[k].layer = NoLayer

(***************************************************************************)
(* layers_topological_ordering.                                            *)
(***************************************************************************)
Ordered == sym_pc = "ordered"

Incomings(c, S) == UNION {Range(DefaultGet(c.in_layers, x)) : x \in S}

\* the layers S reaches along in_layers, S included
RECURSIVE ReachableFrom(_, _)
ReachableFrom(c, S) ==
    LET T == S \cup Incomings(c, S)
    IN  IF T = S THEN S ELSE ReachableFrom(c, T)

OnCycle(c, l) == l \in ReachableFrom(c, Incomings(c, {l}))

Acyclic(c) == \A l \in LayerIds(c) : ~OnCycle(c, l)

OutputLayerIds(c) == {l.id : l \in Range(output_layers(c))}

PositionOf(ordering, l) == CHOOSE i \in DOMAIN ordering : ordering[i] = l

\* C19: for an acyclic circuit, layers_topological_ordering() returns a sequence that
\* contains every layer reachable from the output layers exactly once and in which
\* every layer appears after all of its layer_inputs.
C19_TopologicalOrdering ==
    (Ordered /\ Acyclic(topo_call.operand)) =>
        LET c == topo_call.operand
            ordering == topo_call.ordering
        IN  /\ topo_call.err = "none"
            /\ Range(ordering) = ReachableFrom(c, OutputLayerIds(c))
            /\ \A i, j \in DOMAIN ordering : ordering[i] = ordering[j] => i = j
            /\ \A i \in DOMAIN ordering :
                  \A in_sl \in Range(DefaultGet(c.in_layers, ordering[i])) :
                      /\ in_sl \in Range(ordering)
                      /\ PositionOf(ordering, in_sl) < i

\* an ordering of three layers, one of which feeds the two others
C19_Witness ==
    /\ Ordered
    /\ Acyclic(topo_call.operand)
    /\ Len(topo_call.ordering) = 3
    /\ \E l \in LayerIds(topo_call.operand) :
          Cardinality({m \in LayerIds(topo_call.operand) :
                          l \in Range(DefaultGet(topo_call.operand.in_layers, m))}) = 2

\* C20: if the in_layers/out_layers adjacency of a circuit contains a cycle (including a
\* cycle that leaves the circuit with no layer lacking outgoing edges),
\* layers_topological_ordering() raises a cycle error instead of returning a sequence.
C20_CycleRaises ==
    (Ordered /\ ~Acyclic(topo_call.operand)) => topo_call.err = "ValueError"

(***************************************************************************)
(* integrate: rule lookup, adjacency of the result, partial scopes.        *)
(***************************************************************************)
\* the input layers of the operand that the call integrates over
IntegratedInputs ==
    {l \in Range(int_call.operand.layers) :
        IsInputLayer(l) /\ (l.scope \cap IntegrationScope) # {}}

\* C21: when integrate rewrites an input layer it uses the integration rule registered
\* for the layer's exact type if one exists, otherwise the rule registered for the
\* abstract input-layer base type, and it fails with a no-rule error, producing no
\* circuit, when neither is registered.
C21_IntegrationRuleLookup ==
    Integrated =>
        LET op == int_call.operand
            registry == int_call.registry
        IN  /\ Returned =>
                  \A l \in IntegratedInputs :
                      LET new == LayerById(int_sc, int_call.map_layers[l.id])
                      IN  /\ new.operation.operator = "INTEGRATION"
                          /\ new.operation.rule \in registry
                          /\ new.operation.rule =
                                IF l.cls \in registry THEN l.cls ELSE BaseInputClass
            /\ int_call.err = "NoRuleError" =>
                  /\ int_sc = NoCircuit
                  /\ \E l \in IntegratedInputs :
                        l.cls \notin registry /\ BaseInputClass \notin registry
            /\ (is_smooth(op) /\ is_decomposable(op) /\ IntegrationScope = op.scope
                    /\ ~RegistryCovers(registry, op)) =>
                  /\ int_call.err = "NoRuleError"
                  /\ int_sc = NoCircuit

\* a call with a registry holding both an exact and a base rule that returned a
\* circuit whose two input layers were rewritten by the exact rule
C21_Witness ==
    /\ Returned
    /\ int_call.registry = {"CategoricalLayer", BaseInputClass}
    /\ Cardinality({l \in Range(int_sc.layers) :
                        l.operation.rule = "CategoricalLayer"}) = 2

(***************************************************************************)
(* from_region_graph: the layers of each node.                             *)
(***************************************************************************)
FromRegionGraphReturned == sym_pc = "built"

\* the position in sc.layers of the last layer created for each region graph node: a
\* leaf region creates two layers, every other node one
RECURSIVE LayerPositionOf(_, _)
LayerPositionOf(nodes, k) ==
    IF k = 0 THEN 0
    ELSE LayerPositionOf(nodes, k - 1)
            + (IF nodes[k].kind = "region" /\ nodes[k].inputs = <<>> THEN 2 ELSE 1)

\* the layer that stands for node k in the circuit
NodeLayer(k) == sc.layers[LayerPositionOf(rg_nodes, k)]

\* C22: in from_region_graph, the sum layer of every output region gets num_classes
\* units and the sum layer of every non-output region gets num_sum_units units,
\* whatever the position of the output regions in the region graph's node order.
C22_SumLayerUnits ==
    FromRegionGraphReturned =>
        \A k \in DOMAIN rg_nodes :
            rg_nodes[k].kind = "region" =>
                NodeLayer(k).num_units =
                    IF k \in OutputNodes(rg_nodes) THEN rg_call.num_classes
                    ELSE rg_call.num_sum_units

\* the layers that stand for the inputs of node k, in order
NodeInputLayers(k) == [i \in DOMAIN rg_nodes[k].inputs |-> NodeLayer(rg_nodes[k].inputs[i]).id]

\* C23: from_region_graph creates, for each leaf region, exactly one input layer
\* followed by one sum layer fed only by it; for each partition, exactly one product
\* layer whose inputs are the layers of its input regions in order; for each inner
\* region with exactly one incoming partition, a sum layer from sum_factory; and for
\* each inner region with several incoming partitions, a mixing layer whose inputs are
\* the product layers of all those partitions.
C23_LayersOfNodes ==
    FromRegionGraphReturned =>
        /\ Len(sc.layers) = LayerPositionOf(rg_nodes, Len(rg_nodes))
        /\ \A i, j \in DOMAIN sc.layers : sc.layers[i].id = sc.layers[j].id => i = j
        /\ \A k \in DOMAIN rg_nodes :
              LET rgn == rg_nodes[k]
                  sl == NodeLayer(k)
                  ins == DefaultGet(sc.in_layers, sl.id)
              IN  /\ sl.scope = rgn.scope
                  /\ IF rgn.kind = "region" /\ rgn.inputs = <<>>
                     THEN LET input_sl == sc.layers[LayerPositionOf(rg_nodes, k) - 1]
                          IN  /\ input_sl.cls = rg_call.input_cls
                              /\ input_sl.scope = rgn.scope
                              /\ DefaultGet(sc.in_layers, input_sl.id) = <<>>
                              /\ sl.cls = "SymbSumLayer"
                              /\ ins = <<input_sl.id>>
                     ELSE IF rgn.kind = "partition"
                     THEN /\ sl.cls = "SymbProdLayer"
                          /\ ins = NodeInputLayers(k)
                     ELSE /\ sl.cls = IF Len(rgn.inputs) = 1 THEN "SymbSumLayer"
                                      ELSE "SymbMixingLayer"
                          /\ ins = NodeInputLayers(k)
                          /\ \A i \in DOMAIN ins : LayerById(sc, ins[i]).cls = "SymbProdLayer"

\* a leaf region, two partitions of it, and an inner region over both partitions
C23_Witness ==
    /\ FromRegionGraphReturned
    /\ \E l \in Range(sc.layers) :
          /\ l.cls = "SymbMixingLayer"
          /\ Len(DefaultGet(sc.in_layers, l.id)) = 2
          /\ sc.in_layers[l.id][1] # sc.in_layers[l.id][2]

(***************************************************************************)
(* Shapes of the parameter operators.                                      *)
(***************************************************************************)
ParamAccepted == param_call.err = "none"

\* the axis of the call counted from 0, a negative one counted from the end
CallAxis ==
    IF param_call.axis >= 0 THEN param_call.axis
    ELSE param_call.axis + Len(param_call.opds[1])

AxisInRank == 0 <= CallAxis /\ CallAxis < Len(param_call.opds[1])

\* shape s without the dim at position k (from 0)
WithoutAxis(s, k) == [i \in 1 .. (Len(s) - 1) |-> IF i <= k THEN s[i] ELSE s[i + 1]]

\* shape s with n inserted at position k (from 0)
WithAxis(s, k, n) ==
    [i \in 1 .. (Len(s) + 1) |-> IF i <= k THEN s[i] ELSE IF i = k + 1 THEN n ELSE s[i - 1]]

\* C24: parameter-operator shape laws.  Hadamard(a,b) has shape(a) and is rejected
\* unless shape(a) = shape(b); Kronecker(a,b) has the per-axis product of the operand
\* dims and is rejected unless the ranks are equal; OuterProduct(a,b,axis) is rejected
\* unless all dims other than axis are equal and has dim_a dim_b at axis;
\* ReduceSum/Product/LSE(a,axis) has shape(a) with axis removed; Softmax, LogSoftmax,
\* Exp and Log keep shape(a); a negative axis k means k + rank and an axis outside the
\* rank is rejected.
C24_ParameterShapeLaws ==
    LET c == param_call
        a == c.opds[1]
        b == c.opds[2]
    IN  /\ c.cls = "Hadamard" =>
              /\ ParamAccepted <=> a = b
              /\ ParamAccepted => c.shape = a
        /\ c.cls = "Kronecker" =>
              /\ ParamAccepted <=> Len(a) = Len(b)
              /\ ParamAccepted => c.shape = [i \in DOMAIN a |-> a[i] * b[i]]
        /\ c.cls = "OuterProduct" =>
              /\ ParamAccepted <=>
                    /\ Len(a) = Len(b)
                    /\ AxisInRank
                    /\ \A i \in DOMAIN a : i # CallAxis + 1 => a[i] = b[i]
              /\ ParamAccepted =>
                    c.shape = [i \in DOMAIN a |->
                                  IF i = CallAxis + 1 THEN a[i] * b[i] ELSE a[i]]
        /\ c.cls \in {"ReduceSum", "ReduceProduct", "ReduceLSE"} =>
              /\ ParamAccepted <=> AxisInRank
              /\ ParamAccepted => c.shape = WithoutAxis(a, CallAxis)
        /\ c.cls \in {"Softmax", "LogSoftmax"} =>
              /\ ParamAccepted <=> AxisInRank
              /\ ParamAccepted => c.shape = a
        /\ c.cls \in {"Exp", "Log"} => (ParamAccepted /\ c.shape = a)

\* a reduction over the last axis, given as -1, of a parameter of shape (1, 2)
C24_Witness ==
    /\ param_call.cls = "ReduceSum"
    /\ param_call.opds = <<(<<1, 2>>)>>
    /\ param_call.axis = 0 - 1
    /\ param_call.shape = <<1>>

\* C30: StackOpParameter over n operands of a common shape s with axis k (negative k
\* meaning k + rank) has shape s with n inserted at position k, s[:k] + (n,) + s[k:], of
\* rank len(s) + 1, and is rejected when the operand shapes differ or the axis is
\* outside the rank.
C30_StackShape ==
    param_call.cls = "Stack" =>
        LET c == param_call
            n == Len(c.opds)
        IN  /\ (\E i, j \in DOMAIN c.opds : c.opds[i] # c.opds[j]) => ~ParamAccepted
            /\ (n > 0 /\ ~AxisInRank) => ~ParamAccepted
            /\ ParamAccepted =>
                  /\ Len(c.shape) = Len(c.opds[1]) + 1
                  /\ c.shape = WithAxis(c.opds[1], CallAxis, n)

(***************************************************************************)
(* Adjacency tables and layer views.                                       *)
(***************************************************************************)
\* the layers that take layer a as an input
Consumers(c, a) == {b \in LayerIds(c) : a \in Range(DefaultGet(c.in_layers, b))}

\* layer_outputs(a) is a list holding exactly the consumers of a
OutputsAreConsumers(c) ==
    \A a \in LayerIds(c) :
        /\ OutGet(c.out_layers, a).list
        /\ Range(OutGet(c.out_layers, a).items) = Consumers(c, a)

\* C25: in every circuit built by from_region_graph the two adjacency maps are inverse
\* of each other: layer_outputs(a) is a list that contains b if and only if a is in
\* layer_inputs(b), including when a feeds several consumers; consequently
\* output_layers yields exactly the layers that are an input of no layer, and
\* input_layers yields exactly the layers with no inputs.
C25_AdjacencyInverse ==
    FromRegionGraphReturned =>
        /\ OutputsAreConsumers(sc)
        /\ {l.id : l \in Range(output_layers(sc))} = {a \in LayerIds(sc) : Consumers(sc, a) = {}}
        /\ {l.id : l \in Range(input_layers(sc))}
              = {a \in LayerIds(sc) : DefaultGet(sc.in_layers, a) = <<>>}

\* C26: in the circuit returned by integrate, layer_outputs(a) contains exactly the new
\* layers b such that a is in layer_inputs(b): for every copied sum/product layer new_sl
\* and each of its inputs isl, new_sl is in layer_outputs(isl), and layer_outputs(isl)
\* contains no layer that does not take isl as input.
C26_IntegrateOutputsAreConsumers ==
    Returned => OutputsAreConsumers(int_sc)

\* the position of a layer in the stored layer sequence
StoredPosition(c, id) == CHOOSE k \in DOMAIN c.layers : c.layers[k].id = id

\* every layer is stored after all of its layer_inputs
StoredTopologically(c) ==
    \A k \in DOMAIN c.layers :
        \A in_sl \in Range(DefaultGet(c.in_layers, c.layers[k].id)) :
            /\ in_sl \in LayerIds(c)
            /\ StoredPosition(c, in_sl) < k

\* a view yields layers of the circuit, each once, in the stored order
InStoredOrder(c, view) ==
    /\ \A i \in DOMAIN view : view[i] \in Range(c.layers)
    /\ \A i, j \in DOMAIN view :
          i < j => StoredPosition(c, view[i].id) < StoredPosition(c, view[j].id)

ViewsInStoredOrder(c) ==
    /\ InStoredOrder(c, c.layers)
    /\ InStoredOrder(c, input_layers(c))
    /\ InStoredOrder(c, sum_layers(c))
    /\ InStoredOrder(c, product_layers(c))
    /\ InStoredOrder(c, inner_layers(c))
    /\ InStoredOrder(c, output_layers(c))
    /\ Range(input_layers(c)) \cap Range(inner_layers(c)) = {}
    /\ Range(input_layers(c)) \cup Range(inner_layers(c)) = Range(c.layers)

\* C27: the stored layer sequence of a circuit built by from_region_graph (given
\* region-graph nodes in topological order), and of the circuit returned by integrate
\* on it, is a topological order: every layer appears after all of its layer_inputs;
\* and each view (layers, input_layers, sum_layers, product_layers, inner_layers,
\* output_layers) yields its layers in that stored order, with input_layers and
\* inner_layers partitioning layers.
C27_StoredOrderTopological ==
    /\ sym_pc \in {"built", "integrated", "differentiated"} =>
          (StoredTopologically(sc) /\ ViewsInStoredOrder(sc))
    /\ Returned => (StoredTopologically(int_sc) /\ ViewsInStoredOrder(int_sc))

\* integrate returned a circuit of two leaf regions' layers and a product layer
C27_Witness ==
    /\ Returned
    /\ Len(int_sc.layers) >= 5
    /\ Len(product_layers(int_sc)) >= 1
    /\ Len(inner_layers(int_sc)) >= 3


UnivariateInputs(c) ==
    \A l \in Range(c.layers) : IsInputLayer(l) => Cardinality(l.scope) = 1

ProperSubsetIntegration ==
    /\ Integrated
    /\ int_call.scope_arg.given
    /\ int_call.scope_arg.vars # {}
    /\ int_call.scope_arg.vars \subseteq int_call.operand.scope
    /\ int_call.scope_arg.vars # int_call.operand.scope
    /\ Smooth(int_call.operand) /\ Decomposable(int_call.operand)
    /\ UnivariateInputs(int_call.operand)
    /\ RegistryCovers(int_call.registry, int_call.operand)

\* C29: integrate(sc, scope) with a scope that is a proper subset of sc.scope succeeds
\* on a smooth and decomposable circuit with univariate input layers: the input layers
\* whose variable is in the scope are replaced by the integration rule's layer, the
\* input layers whose variable is not in the scope are kept, and the recorded
\* operation is INTEGRATION with operands (sc,) and the requested scope.
C29_IntegrateProperSubset ==
    ProperSubsetIntegration =>
        /\ int_call.err = "none"
        /\ \A l \in Range(int_call.operand.layers) :
              IsInputLayer(l) =>
                  /\ l.id \in DOMAIN int_call.map_layers
                  /\ LET new == LayerById(int_sc, int_call.map_layers[l.id])
                     IN  IF l.scope \subseteq int_call.scope_arg.vars
                         THEN new.operation.operator = "INTEGRATION"
                         ELSE new.cls = l.cls /\ new.scope = l.scope
        /\ int_sc.operation = [operator |-> "INTEGRATION",
                               operands |-> <<int_call.operand.id>>,
                               scope |-> int_call.scope_arg.vars]


(***************************************************************************)
(* Pipelines: the circuits a circuit derives from.                         *)
(***************************************************************************)
OperandIds(id) == Range(CircuitOf(pipe, id).operation.operands)

RECURSIVE OperandClosure(_, _)
OperandClosure(S, n) ==
    IF n = 0 THEN S
    ELSE OperandClosure(S \cup UNION {OperandIds(x) : x \in S}, n - 1)

\* the circuits reachable from the circuits of S through operation.operands
DerivedFrom(S) == OperandClosure(S, Len(pipe))

OperandCycleIn(S) == \E x \in S : x \in DerivedFrom(OperandIds(x))

OperandsFirst(ordering) ==
    \A i \in DOMAIN ordering :
        \A y \in OperandIds(ordering[i]) :
            \E j \in DOMAIN ordering : j < i /\ ordering[j] = y

=============================================================================
